---- MODULE Spec2Model ----
(***************************************************************************)
(* Regioinvent: the trade-based regionalization pipeline                   *)
(* (src/src/regioinvent/workflows/regionalization).                        *)
(*                                                                         *)
(* Five specifications share the operators below:                          *)
(*   SpecShares  the cutoff / Rest-of-World aggregation of trade shares    *)
(*               (first_order.py 77-90, consumption_markets.py 46-88);     *)
(*   SpecSubst   the input substitutions applied to one cloned process     *)
(*               (transformations.py);                                     *)
(*   Spec        the pipeline regionalize_ecoinvent_with_trade and the     *)
(*               record collections its stages build (pipeline.py,         *)
(*               first_order.py, consumption_markets.py, second_order.py,  *)
(*               elem_spatialization.py, io_ops.py);                       *)
(*   SpecCutoff  a first call of regionalize_ecoinvent_with_trade with any *)
(*               arguments, up to its first stage (pipeline.py 21-77);     *)
(*   SpecStages  the first run on a new object, for every trade database,  *)
(*               through its stages up to the write stage.                 *)
(*                                                                         *)
(* Amounts and shares are exact rationals [n, d]; a cutoff is counted in   *)
(* thousandths (0.99 is 990).                                              *)
(***************************************************************************)
EXTENDS Integers, Sequences, FiniteSets, TLC

VARIABLES
    mode,                   \* which of the specifications runs
    \* ---- trade shares (SpecShares)
    sh_pc,                  \* "input" | "done" | "raised"
    cmd_prod_data,          \* exporter -> mean quantity of one commodity
    cmd_consumption_data,   \* <<importer, exporter>> -> mean quantity
    cutoff,                 \* regio.cutoff, in thousandths
    sorted_order,           \* the index after sort_values(ascending=False)
    sh_limit,               \* the number of retained entries
    producers,              \* the producers Series after cutoff and RoW
    consumer_shares,        \* the consumption rows after the per-consumer loop
    \* ---- input substitution on one clone (SpecSubst)
    sub_pc,                 \* the next step of the loop body, "raised" after an exception
    template,               \* the ecoinvent process being copied
    geo,                    \* the location of the created process
    regio_process,          \* the clone, <<>> before copy_process
    uuid_next,              \* the next value of uuid.uuid4()
    electricity_region_cache,            \* regio._electricity_region_cache
    aluminium_electricity_region_cache,  \* regio._aluminium_electricity_region_cache
    waste_region_cache,                  \* regio._waste_region_cache
    heat_mix_cache,                      \* regio._heat_mix_cache
    sub_last,               \* the substitution applied by the last step, "" if none
    sub_counted,            \* the exchanges whose amounts it summed
    sub_removed,            \* the exchanges it removed
    sub_appended,           \* the exchanges it appended
    \* ---- the pipeline (Spec)
    run_pc,                 \* the stage regionalize_ecoinvent_with_trade runs next, "idle" outside a call
    run_raised,             \* the exception the last call raised, "" if it returned
    last_call,              \* the function called last, "" before the first call
    trade_conn,             \* regio.trade_conn: the trade database connected, 0 for none
    regioinvent_database_name,  \* regio.regioinvent_database_name
    target_db_name,         \* regio.target_db_name
    production_data,        \* regio.production_data: product -> exporter -> quantity
    consumption_data,       \* regio.consumption_data: product -> <<importer, exporter>> -> quantity
    ei_wurst,               \* regio.ei_wurst, the processes themselves
    records,                \* every process created so far, by identity
    regioinvent_in_wurst,   \* regio.regioinvent_in_wurst, as identities in records
    regio_tables,           \* created_geographies, distribution_technologies, transportation_modes, unit
    final_database_in_memory,   \* regio._final_database_in_memory, as references
    databases,              \* bw2.databases: name -> the records written
    \* ---- history of the calls, read by the claims only
    run_count,              \* calls of regionalize_ecoinvent_with_trade so far
    direct_calls,           \* direct calls of connect / write_database so far
    stage_log,              \* the stages the current run has invoked
    run_first,              \* Len(records) when the current run began
    assembled_in,           \* the run whose connect built the final database, 0 for a direct call, -1 for none
    write_log,              \* for each write of the current run: the run that assembled what it wrote
    deleted                 \* the databases the last call of the pipeline deleted

shareVars == <<sh_pc, cmd_prod_data, cmd_consumption_data, sorted_order, sh_limit,
               producers, consumer_shares>>

cacheVars == <<electricity_region_cache, aluminium_electricity_region_cache,
               waste_region_cache, heat_mix_cache>>

substVars == <<sub_pc, template, geo, regio_process, cacheVars,
               sub_last, sub_counted, sub_removed, sub_appended>>

regioVars == <<run_pc, run_raised, last_call, trade_conn, regioinvent_database_name, target_db_name,
               production_data, consumption_data, ei_wurst, records, regioinvent_in_wurst,
               regio_tables, final_database_in_memory, databases>>

historyVars == <<run_count, direct_calls, stage_log, run_first, assembled_in, write_log,
                 deleted>>

pipelineVars == <<regioVars, historyVars>>

vars == <<mode, cutoff, uuid_next, shareVars, substVars, pipelineVars>>

NoProcess == <<>>
EmptyDict == <<>>
FirstUuid == 1001    \* uuid4 values are drawn apart from the codes of ecoinvent

(* the variables of a specification that is not running *)
SharesIdle ==
    /\ sh_pc = "idle" /\ cmd_prod_data = <<>> /\ cmd_consumption_data = <<>>
    /\ sorted_order = <<>> /\ sh_limit = 0
    /\ producers = [index |-> <<>>, share |-> <<>>]
    /\ consumer_shares = <<>>

SubstIdle ==
    /\ sub_pc = "idle" /\ template = NoProcess /\ geo = "" /\ regio_process = NoProcess
    /\ electricity_region_cache = EmptyDict
    /\ aluminium_electricity_region_cache = EmptyDict
    /\ waste_region_cache = EmptyDict
    /\ heat_mix_cache = EmptyDict
    /\ sub_last = "" /\ sub_counted = <<>> /\ sub_removed = <<>> /\ sub_appended = <<>>

NoTables == [created_geographies |-> EmptyDict, distribution_technologies |-> EmptyDict,
             transportation_modes |-> EmptyDict, unit |-> EmptyDict]

PipelineIdle ==
    /\ run_pc = "off" /\ run_raised = "" /\ last_call = "" /\ trade_conn = 0
    /\ regioinvent_database_name = "" /\ target_db_name = ""
    /\ production_data = EmptyDict /\ consumption_data = EmptyDict
    /\ ei_wurst = <<>> /\ records = <<>> /\ regioinvent_in_wurst = <<>>
    /\ regio_tables = NoTables /\ final_database_in_memory = <<>> /\ databases = EmptyDict
    /\ run_count = 0 /\ direct_calls = 0 /\ stage_log = <<>> /\ run_first = 0
    /\ assembled_in = -1 /\ write_log = <<>> /\ deleted = {}

----------------------------------------------------------------------------
(* Bounds of the model *)

MaxQty == 5          \* largest mean quantity of a producer
MaxTradeQty == 2     \* largest mean quantity of one (importer, exporter) row

(* Program constants *)

CutoffScale == 1000  \* a cutoff c of the program is c * 1000 here
CutoffMax == 990     \* pipeline.py 31: cutoff > 0.99 is rejected

----------------------------------------------------------------------------
(* Exact rationals *)

RECURSIVE Gcd(_, _)
Gcd(a, b) == IF b = 0 THEN a ELSE Gcd(b, a % b)

Abs(x) == IF x < 0 THEN -x ELSE x

Rat(n, d) ==
    IF n = 0 THEN [n |-> 0, d |-> 1]
    ELSE LET g == Gcd(Abs(n), Abs(d))
             s == IF d < 0 THEN -1 ELSE 1
         IN [n |-> s * (n \div g), d |-> s * (d \div g)]

RInt(k) == [n |-> k, d |-> 1]
RZero == RInt(0)
ROne == RInt(1)
RAdd(x, y) == Rat(x.n * y.d + y.n * x.d, x.d * y.d)
RMul(x, y) == Rat(x.n * y.n, x.d * y.d)
RDiv(x, y) == Rat(x.n * y.d, x.d * y.n)
RLess(x, y) == x.n * y.d < y.n * x.d

RECURSIVE RSumSeq(_)
RSumSeq(s) == IF s = <<>> THEN RZero ELSE RAdd(Head(s), RSumSeq(Tail(s)))

RECURSIVE SumSeq(_)
SumSeq(s) == IF s = <<>> THEN 0 ELSE Head(s) + SumSeq(Tail(s))

RECURSIVE SeqOfSet(_)
SeqOfSet(S) == IF S = {} THEN <<>>
               ELSE LET x == CHOOSE y \in S : TRUE IN <<x>> \o SeqOfSet(S \ {x})

Range(s) == {s[i] : i \in DOMAIN s}

----------------------------------------------------------------------------
(* Labels and their order (Python compares the strings) *)

LabelRank(l) ==
    CASE l = "A" -> 1 [] l = "B" -> 2 [] l = "C" -> 3 [] l = "CA" -> 4
      [] l = "CH" -> 5 [] l = "DE" -> 6 [] l = "GLO" -> 7 [] l = "JP" -> 8
      [] l = "LI" -> 9 [] l = "RER" -> 10 [] l = "RoW" -> 11 [] l = "US" -> 12
      [] OTHER -> 13

RECURSIVE SortedLabels(_)
SortedLabels(S) ==
    IF S = {} THEN <<>>
    ELSE LET x == CHOOSE y \in S : \A z \in S : LabelRank(y) <= LabelRank(z)
         IN <<x>> \o SortedLabels(S \ {x})

----------------------------------------------------------------------------
(* Cutoff and Rest-of-World aggregation of the producers of a commodity:   *)
(* first_order.py 77-90.  q maps each exporter to its mean quantity.       *)

TotalQty(q) == SumSeq([i \in 1..Cardinality(DOMAIN q) |-> q[SeqOfSet(DOMAIN q)[i]]])

(* sort_values(ascending=False): any descending order of the index; the    *)
(* order of equal shares is the sort's own choice.                         *)
SortedDescending(q) ==
    LET n == Cardinality(DOMAIN q)
    IN {o \in [1..n -> DOMAIN q] :
          /\ \A i, j \in 1..n : i # j => o[i] # o[j]
          /\ \A i \in 1..(n - 1) : q[o[i]] >= q[o[i + 1]]}

CumSum(q, order, i) == SumSeq([j \in 1..i |-> q[order[j]]])

(* producers.cumsum() > regio.cutoff, as the positions where it holds *)
AboveCutoffMutGeq(q, order, c) ==
    {i \in 1..Len(order) : CumSum(q, order, i) * CutoffScale >= c * TotalQty(q)}

AboveCutoff(q, order, c) ==
    {i \in 1..Len(order) : CumSum(q, order, i) * CutoffScale > c * TotalQty(q)}

LimitMutCount(q, order, c) == Cardinality(AboveCutoff(q, order, c))

(* index.get_loc(...index[0]) + 1; 0 stands for the IndexError of an empty mask *)
Limit(q, order, c) ==
    LET mask == AboveCutoff(q, order, c)
    IN IF mask = {} THEN 0 ELSE CHOOSE i \in mask : \A j \in mask : i <= j

RemainderMutSkip(q, order, limit) ==
    SumSeq([j \in 1..(Len(order) - limit - 1) |-> q[order[limit + 1 + j]]])

Remainder(q, order, limit) ==
    SumSeq([j \in 1..(Len(order) - limit) |-> q[order[limit + j]]])

(* The producers Series: its index (in order) and the share of each entry. *)
Producers(q, order, c) ==
    LET limit == Limit(q, order, c)
        remainder == Remainder(q, order, limit)
        kept == SubSeq(order, 1, limit)
        total == TotalQty(q)
    IN IF "RoW" \in Range(kept)
       THEN [index |-> kept,
             share |-> [x \in Range(kept) |->
                          IF x = "RoW" THEN Rat(q[x] + remainder, total)
                          ELSE Rat(q[x], total)]]
       ELSE [index |-> Append(kept, "RoW"),
             share |-> [x \in Range(kept) \cup {"RoW"} |->
                          IF x = "RoW" THEN Rat(remainder, total)
                          ELSE Rat(q[x], total)]]

----------------------------------------------------------------------------
(* Cutoff and Rest-of-World aggregation of the consumers of a commodity:   *)
(* consumption_markets.py 46-88.  m maps each <<importer, exporter>> row   *)
(* to its mean quantity.  Rows are [importer, exporter, qty].              *)

Importers(m) == {k[1] : k \in DOMAIN m}
Exporters(m) == {k[2] : k \in DOMAIN m}

(* cmd_consumption_data.groupby(level=0).sum(): the quantity of each importer *)
ImporterQty(m) ==
    [i \in Importers(m) |->
        SumSeq([k \in 1..Cardinality({e \in Exporters(m) : <<i, e>> \in DOMAIN m}) |->
                 m[<<i, SeqOfSet({e \in Exporters(m) : <<i, e>> \in DOMAIN m})[k]>>]])]

(* rows of the importers of `imps` (a sequence), in that order, each       *)
(* importer's rows by exporter                                             *)
RECURSIVE RowsOf(_, _)
RowsOf(m, imps) ==
    IF imps = <<>> THEN <<>>
    ELSE LET i == Head(imps)
             es == SortedLabels({e \in Exporters(m) : <<i, e>> \in DOMAIN m})
         IN [k \in 1..Len(es) |->
               [importer |-> i, exporter |-> es[k], qty |-> RInt(m[<<i, es[k]>>])]]
            \o RowsOf(m, Tail(imps))

(* .groupby(level=...).sum() of rows by exporter, given the importer label *)
GroupByExporter(rows, label) ==
    LET es == SortedLabels({r.exporter : r \in Range(rows)})
    IN [k \in 1..Len(es) |->
          [importer |-> label, exporter |-> es[k],
           qty |-> RSumSeq(LET sel == SelectSeq(rows, LAMBDA r : r.exporter = es[k])
                           IN [j \in 1..Len(sel) |-> sel[j].qty])]]

RowsOfImporter(rows, i) == SelectSeq(rows, LAMBDA r : r.importer = i)
RowsNotOfImporter(rows, i) == SelectSeq(rows, LAMBDA r : r.importer # i)
RowQtySum(rows) == RSumSeq([j \in 1..Len(rows) |-> rows[j].qty])

(* lines 58-69: the retained importers' rows and the aggregate, keyed RoW *)
ConsumptionRows(m, order, c) ==
    LET limit == Limit(ImporterQty(m), order, c)
        rest == SubSeq(order, limit + 1, Len(order))
        remainder == GroupByExporter(RowsOf(m, rest), "RoW")
        kept == RowsOf(m, SubSeq(order, 1, limit))
        all == kept \o remainder
    IN \* sort_index(): by importer (a stable sort keeps RoW's two groups)
       LET imps == SortedLabels({r.importer : r \in Range(all)})
           RECURSIVE Sorted(_)
           Sorted(is) == IF is = <<>> THEN <<>>
                         ELSE RowsOfImporter(all, Head(is)) \o Sorted(Tail(is))
       IN Sorted(imps)

(* lines 74-77: the rows of one consumer divided by their sum *)
NormalizeMutGrand(rows, consumer) ==
    [j \in 1..Len(rows) |->
        IF rows[j].importer = consumer
        THEN [rows[j] EXCEPT !.qty = RDiv(rows[j].qty, RowQtySum(rows))]
        ELSE rows[j]]

Normalize(rows, consumer) ==
    [j \in 1..Len(rows) |->
        IF rows[j].importer = consumer
        THEN [rows[j] EXCEPT !.qty =
                 RDiv(rows[j].qty, RowQtySum(RowsOfImporter(rows, consumer)))]
        ELSE rows[j]]

(* lines 79-87: the RoW rows merged by exporter and put last *)
MergeRoW(rows) ==
    RowsNotOfImporter(rows, "RoW") \o GroupByExporter(RowsOfImporter(rows, "RoW"), "RoW")

(* lines 72-88: the loop over the consumers (index.levels[0], read once).  *)
(* .loc["RoW"] raises KeyError when no row is keyed RoW.                   *)
RECURSIVE ConsumerLoop(_, _)
ConsumerLoop(rows, consumers) ==
    IF consumers = <<>> THEN [raised |-> FALSE, rows |-> rows]
    ELSE LET normalized == Normalize(rows, Head(consumers))
         IN IF RowsOfImporter(normalized, "RoW") = <<>>
            THEN [raised |-> TRUE, rows |-> normalized]
            ELSE ConsumerLoop(MergeRoW(normalized), Tail(consumers))

ConsumerShares(m, order, c) ==
    LET rows == ConsumptionRows(m, order, c)
    IN ConsumerLoop(rows, SortedLabels({r.importer : r \in Range(rows)}))

----------------------------------------------------------------------------
(* SpecShares: the two share computations on bounded trade data *)

ProdCountries == {"A", "B", "C", "RoW"}
ImpCountries == {"A", "B", "RoW"}
ExpCountries == {"A", "B"}
ShareCutoffs == {0, 500, 700, 800, 900, CutoffMax}

NoTable == <<>>
NoProducers == [index |-> <<>>, share |-> <<>>]

ProdTables == UNION {[S -> 1..MaxQty] : S \in (SUBSET ProdCountries) \ {{}}}
ConsTables ==
    UNION {[S -> 1..MaxTradeQty] : S \in (SUBSET (ImpCountries \X ExpCountries)) \ {{}}}

InitShares ==
    /\ mode = "shares"
    /\ sh_pc = "input"
    /\ cutoff \in ShareCutoffs
    /\ \/ cmd_prod_data \in ProdTables /\ cmd_consumption_data = NoTable
       \/ cmd_prod_data = NoTable /\ cmd_consumption_data \in ConsTables
    /\ sorted_order = <<>>
    /\ sh_limit = 0
    /\ producers = NoProducers
    /\ consumer_shares = <<>>
    /\ uuid_next = FirstUuid
    /\ SubstIdle
    /\ PipelineIdle

(* first_order.py 77-90 for one commodity *)
ComputeProducers ==
    /\ mode = "shares" /\ sh_pc = "input" /\ cmd_prod_data # NoTable
    /\ \E order \in SortedDescending(cmd_prod_data) :
          /\ sorted_order' = order
          /\ sh_limit' = Limit(cmd_prod_data, order, cutoff)
          /\ producers' = Producers(cmd_prod_data, order, cutoff)
    /\ sh_pc' = "done"
    /\ UNCHANGED <<mode, cutoff, cmd_prod_data, cmd_consumption_data, consumer_shares,
                   uuid_next, substVars, pipelineVars>>

(* consumption_markets.py 46-88 for one commodity *)
ComputeConsumers ==
    /\ mode = "shares" /\ sh_pc = "input" /\ cmd_consumption_data # NoTable
    /\ \E order \in SortedDescending(ImporterQty(cmd_consumption_data)) :
          LET res == ConsumerShares(cmd_consumption_data, order, cutoff)
          IN /\ sorted_order' = order
             /\ sh_limit' = Limit(ImporterQty(cmd_consumption_data), order, cutoff)
             /\ consumer_shares' = res.rows
             /\ sh_pc' = IF res.raised THEN "raised" ELSE "done"
    /\ UNCHANGED <<mode, cutoff, cmd_prod_data, cmd_consumption_data, producers,
                   uuid_next, substVars, pipelineVars>>

NextShares == ComputeProducers \/ ComputeConsumers

SpecShares == InitShares /\ [][NextShares]_vars

----------------------------------------------------------------------------
(* Claims on the trade shares *)

ProdDone == mode = "shares" /\ sh_pc = "done" /\ cmd_prod_data # NoTable
ConsDone == mode = "shares" /\ sh_pc = "done" /\ cmd_consumption_data # NoTable

(* the quantities the cutoff is applied to in the finished computation *)
RankedQty == IF cmd_prod_data # NoTable THEN cmd_prod_data
             ELSE ImporterQty(cmd_consumption_data)
RetainedSet == {sorted_order[i] : i \in 1..sh_limit}
RestSet == {sorted_order[i] : i \in (sh_limit + 1)..Len(sorted_order)}
QtyOfSet(q, S) == SumSeq([i \in 1..Cardinality(S) |-> q[SeqOfSet(S)[i]]])

SmallestPrefix ==
    /\ sh_limit \in 1..Len(sorted_order)
    /\ \A x \in RetainedSet, y \in RestSet : RankedQty[x] >= RankedQty[y]
    /\ QtyOfSet(RankedQty, RetainedSet) * CutoffScale > cutoff * TotalQty(RankedQty)
    /\ \A k \in 1..(sh_limit - 1) :
          QtyOfSet(RankedQty, {sorted_order[i] : i \in 1..k}) * CutoffScale
             <= cutoff * TotalQty(RankedQty)

ConsumerRow(i, e) == SelectSeq(consumer_shares, LAMBDA r : r.importer = i /\ r.exporter = e)
RowQtyOrZero(m, i, e) == IF <<i, e>> \in DOMAIN m THEN m[<<i, e>>] ELSE 0
(* what the non-retained importers, and a retained RoW importer, bought from e *)
RoWQtyFrom(m, e) ==
    SumSeq([k \in 1..Cardinality(RestSet \cup ({"RoW"} \cap RetainedSet)) |->
              RowQtyOrZero(m, SeqOfSet(RestSet \cup ({"RoW"} \cap RetainedSet))[k], e)])

(* C9: the retained countries are the smallest prefix of the countries     *)
(* sorted by descending share whose cumulative share strictly exceeds the  *)
(* cutoff; every retained country keeps its own share and all the rest is  *)
(* one RoW entry (added to RoW's own share when RoW is retained); shares   *)
(* {A: 0.5, B: 0.3, C: 0.2} with cutoff 0.7 give {A: 0.5, B: 0.3} and RoW  *)
(* 0.2.  The same holds for the consumers, whose RoW rows hold, per        *)
(* trading partner, everything the non-retained importers bought.          *)
C9_SmallestPrefixAndRoW ==
    /\ ProdDone =>
          /\ SmallestPrefix
          /\ DOMAIN producers.share = RetainedSet \cup {"RoW"}
          /\ Range(producers.index) = RetainedSet \cup {"RoW"}
          /\ Len(producers.index) = Cardinality(RetainedSet \cup {"RoW"})
          /\ \A x \in RetainedSet \ {"RoW"} :
                producers.share[x] = Rat(cmd_prod_data[x], TotalQty(cmd_prod_data))
          /\ producers.share["RoW"] =
                Rat(QtyOfSet(cmd_prod_data, RestSet \cup ({"RoW"} \cap RetainedSet)),
                    TotalQty(cmd_prod_data))
          /\ (cmd_prod_data = [x \in {"A", "B", "C"} |->
                                 IF x = "A" THEN 5 ELSE IF x = "B" THEN 3 ELSE 2]
              /\ cutoff = 700)
                => producers.share = [x \in {"A", "B", "RoW"} |->
                                        IF x = "A" THEN Rat(1, 2)
                                        ELSE IF x = "B" THEN Rat(3, 10) ELSE Rat(1, 5)]
    /\ ConsDone =>
          /\ SmallestPrefix
          /\ {r.importer : r \in Range(consumer_shares)} = RetainedSet \cup {"RoW"}
          /\ \A e \in Exporters(cmd_consumption_data) :
                /\ Len(ConsumerRow("RoW", e)) <= 1
                /\ Len(ConsumerRow("RoW", e)) = 1 <=> RoWQtyFrom(cmd_consumption_data, e) > 0
                /\ Len(ConsumerRow("RoW", e)) = 1 =>
                      ConsumerRow("RoW", e)[1].qty =
                         Rat(RoWQtyFrom(cmd_consumption_data, e),
                             QtyOfSet(ImporterQty(cmd_consumption_data),
                                      RestSet \cup ({"RoW"} \cap RetainedSet)))

(* C9 witness: the example of the claim has been computed *)
C9_Witness ==
    /\ ProdDone /\ cutoff = 700 /\ sh_limit = 2
    /\ DOMAIN cmd_prod_data = {"A", "B", "C"}
    /\ cmd_prod_data["A"] = 5 /\ cmd_prod_data["B"] = 3 /\ cmd_prod_data["C"] = 2
    /\ producers.index = <<"A", "B", "RoW">>

(* C10: after cutoff and RoW aggregation the producer shares, RoW          *)
(* included, sum to the whole, and the shares of every retained consumer,  *)
(* the RoW consumer included, over its trading partners sum to the whole.  *)
C10_SharesSumToOne ==
    /\ ProdDone =>
          RSumSeq([i \in 1..Len(producers.index) |-> producers.share[producers.index[i]]])
             = ROne
    /\ ConsDone =>
          \A c \in RetainedSet \cup {"RoW"} :
             RowQtySum(RowsOfImporter(consumer_shares, c)) = ROne

(* C10 witness: a consumer table where RoW is retained and also receives   *)
(* the aggregate of a non-retained importer                                *)
C10_Witness ==
    /\ ConsDone
    /\ "RoW" \in RetainedSet /\ RestSet # {}
    /\ Len(RowsOfImporter(consumer_shares, "RoW")) = 2

----------------------------------------------------------------------------
(* Python values: strings, dicts and None *)

None == "None"

(* w in s *)
Contains(s, w) ==
    \E i \in 1..(Len(s) - Len(w) + 1) : SubSeq(s, i, i + Len(w) - 1) = w

(* s.split(w)[0] *)
SplitFirst(s, w) ==
    IF Contains(s, w)
    THEN LET i == CHOOSE k \in 1..(Len(s) - Len(w) + 1) :
                     /\ SubSeq(s, k, k + Len(w) - 1) = w
                     /\ \A j \in 1..(k - 1) : SubSeq(s, j, j + Len(w) - 1) # w
         IN SubSeq(s, 1, i - 1)
    ELSE s

(* ", ".join(s.split(", ")[:-1]): s up to its last ", ", "" when it has none *)
DropLastPart(s) ==
    IF Contains(s, ", ")
    THEN LET i == CHOOSE k \in 1..(Len(s) - 1) :
                     /\ SubSeq(s, k, k + 1) = ", "
                     /\ \A j \in (k + 1)..(Len(s) - 1) : SubSeq(s, j, j + 1) # ", "
         IN SubSeq(s, 1, i - 1)
    ELSE ""

Has(d, k) == k \in DOMAIN d
(* d[k] = v *)
(* F(v): v is named once and used under that name in F *)
With(v, F(_)) == F(v)

Put(d, k, v) == [x \in DOMAIN d \cup {k} |-> IF x = k THEN v ELSE d[x]]
(* d.get(k, default) *)
Get(d, k, default) == IF k \in DOMAIN d THEN d[k] ELSE default
(* d.pop(k, None) *)
Pop(d, k) == [x \in DOMAIN d \ {k} |-> d[x]]

(* the elements of a sequence that satisfy Test, and the others *)
Filter(s, Test(_)) == SelectSeq(s, Test)
Reject(s, Test(_)) == SelectSeq(s, LAMBDA x : ~Test(x))

(* list(set(...)): the distinct values of a sequence, in every order *)
Orders(S) ==
    {o \in [1..Cardinality(S) -> S] : \A i, j \in 1..Cardinality(S) : i # j => o[i] # o[j]}

AmountSum(excs) == RSumSeq([i \in 1..Len(excs) |-> excs[i]["amount"]])

----------------------------------------------------------------------------
(* The static tables of a Regioinvent instance (main.py 63-122) for a      *)
(* small world: Germany and Liechtenstein in RER, Switzerland, Japan, the  *)
(* United States and Canada.                                               *)

name_ei_with_regionalized_biosphere == "ecoinvent regionalized"
name_spatialized_biosphere == "biosphere3_spatialized_flows"

country_to_ecoinvent_regions ==
    [c \in {"DE", "LI", "CH", "JP", "US", "CA"} |->
        CASE c \in {"DE", "LI"} -> <<"RER", "Europe without Switzerland", "IAI Area, EU27 & EFTA">>
          [] c = "CH" -> <<"RER", "IAI Area, EU27 & EFTA">>
          [] c = "JP" -> <<"RAS", "IAI Area, Asia, without China and GCC">>
          [] c \in {"US", "CA"} -> <<"RNA", "IAI Area, North America">>]

electricity_geos == {"DE", "CH", "JP", "US", "CA", "RER", "RAS", "RNA", "GLO"}
electricity_aluminium_geos == {"IAI Area, EU27 & EFTA", "IAI Area, North America", "RoW"}
waste_geos == {"CH", "US"}
heat_district_ng == {"DE", "CH", "US", "CA", "JP"}
heat_district_non_ng == {"DE", "CH", "US", "CA"}
heat_small_scale_non_ng == {"CH", "US"}

HeatNg == "heat, district or industrial, natural gas"
HeatNonNg == "heat, district or industrial, other than natural gas"
HeatSmallNonNg == "heat, central or small-scale, other than natural gas"
HeatFlows == {HeatNg, HeatNonNg, HeatSmallNonNg}

(* transformations.py 88-101: the geographies with market groups of electricity *)
MarketGroupGeos ==
    {"BR", "CA", "CN", "GLO", "IN", "RAF", "RAS", "RER", "RLA", "RME", "RNA", "US"}

----------------------------------------------------------------------------
(* Exchanges and processes as wurst extracts them (pipeline.py 37-41, with *)
(* add_identifiers): an exchange carries name, product, location, unit,    *)
(* database and code of its supplier and no input key; a biosphere         *)
(* exchange has no product and no location.  Comments are left out.        *)

Kwh == "kilowatt hour"
Mj == "megajoule"
Kg == "kilogram"
Tkm == "ton kilometer"

Exchange(type, name, product, location, unit, amount, database, code) ==
    [type |-> type, name |-> name, product |-> product, location |-> location,
     unit |-> unit, amount |-> amount, database |-> database, code |-> code]

BiosphereExchange(name, categories, amount, database, code) ==
    [type |-> "biosphere", name |-> name, product |-> None, location |-> None,
     unit |-> Kg, amount |-> amount, database |-> database, code |-> code,
     categories |-> categories]

Process(name, product, location, unit, database, code, exchanges) ==
    [name |-> name, location |-> location, unit |-> unit, database |-> database,
     code |-> code, exchanges |-> exchanges] @@ ("reference product" :> product)

ElecHV == "electricity, high voltage"
ElecAlu == "electricity, medium voltage, aluminium industry"
ElecCobalt == "electricity, high voltage, cobalt industry"
ElecSBB == "electricity, high voltage, for Swiss Federal Railways"
Waste == "municipal solid waste"

HeatProduction(flow) ==
    CASE flow = HeatNg -> "heat production, natural gas, at industrial furnace >100kW"
      [] flow = HeatNonNg -> "heat production, wood chips from industry, at furnace 1000kW"
      [] flow = HeatSmallNonNg -> "heat production, wood pellet, at furnace 25kW"

(* the processes of ecoinvent that the substitutions look up: name, product, location, unit *)
EnergyRows ==
    {<<(IF g \in MarketGroupGeos THEN "market group for " ELSE "market for ") \o ElecHV,
       ElecHV, g, Kwh>> : g \in electricity_geos}
    \cup {<<"market for " \o ElecAlu, ElecAlu, g, Kwh>> : g \in electricity_aluminium_geos}
    \cup {<<"market for " \o ElecCobalt, ElecCobalt, "GLO", Kwh>>}
    \cup {<<"market for " \o Waste, Waste, g, Kg>> : g \in waste_geos \cup {"RoW"}}
    \cup {<<"market group for " \o Waste, Waste, "Europe without Switzerland", Kg>>}
    \cup {<<"market for " \o f, f, g, Mj>> :
             f \in HeatFlows, g \in {"Europe without Switzerland", "RoW", "CH", "CA-QC"}}
    \cup {<<"market group for " \o f, f, "GLO", Mj>> : f \in HeatFlows}
    \cup {<<HeatProduction(f), f, g, Mj>> :
             f \in HeatFlows,
             g \in {"DE", "Europe without Switzerland", "RoW", "CH", "US-WECC", "CA-ON"}}
    \cup {<<HeatProduction(HeatNg), HeatNg, "JP", Mj>>}

(* the suppliers of a heat market: <<name, location, amount>> *)
HeatSuppliers(flow, location) ==
    CASE location = "Europe without Switzerland" ->
            IF flow = HeatNonNg
            THEN <<  <<HeatProduction(flow), "Europe without Switzerland", Rat(1, 1)>>  >>
            ELSE <<  <<HeatProduction(flow), "DE", Rat(1, 4)>>,
                     <<HeatProduction(flow), "Europe without Switzerland", Rat(3, 4)>>  >>
      [] location = "RoW" ->
            <<  <<HeatProduction(flow), "RoW", Rat(1, 2)>>,
                <<HeatProduction(flow), "US-WECC", Rat(1, 4)>>,
                <<HeatProduction(flow), "CA-ON", Rat(1, 4)>>  >>
            \o (IF flow = HeatNg THEN <<  <<HeatProduction(flow), "JP", Rat(1, 4)>>  >>
                ELSE <<>>)
      [] location = "CH" -> <<  <<HeatProduction(flow), "CH", Rat(1, 1)>>  >>
      [] location = "GLO" ->
            <<  <<"market for " \o flow, "RoW", Rat(4, 5)>>,
                <<"market for " \o flow, "CA-QC", Rat(1, 5)>>  >>
      [] OTHER -> <<>>

Steel == "steel, low-alloyed"
Lime == "lime"
Car == "passenger car"
SeaTransport == "transport, freight, sea, container ship"
Converter == "steel production, converter, low-alloyed"
Electric == "steel production, electric, low-alloyed"
LimeProduction == "lime production, milled, loose"
CarProduction == "passenger car production"

(* the processes of ecoinvent around one traded commodity (steel) and one  *)
(* non-traded product (lime)                                               *)
TradeRows ==
    {<<Converter, Steel, g, Kg>> : g \in {"RER", "RoW", "Europe without Switzerland"}}
    \cup {<<Electric, Steel, g, Kg>> : g \in {"RoW", "DE"}}
    \cup {<<"market for " \o Steel, Steel, g, Kg>> : g \in {"GLO", "IN"}}
    \cup {<<"market for " \o SeaTransport, SeaTransport, "GLO", Tkm>>}
    \cup {<<LimeProduction, Lime, g, Kg>> : g \in {"CH", "RoW"}}
    \cup {<<"market for " \o Lime, Lime, "RoW", Kg>>}
    \cup {<<CarProduction, Car, g, "unit">> : g \in {"CA", "CH", "RER"}}

EcoinventRows == SeqOfSet(EnergyRows \cup TradeRows)

(* the code of the ecoinvent process (name, product, location) *)
EiCode(name, product, location) ==
    CHOOSE i \in 1..Len(EcoinventRows) :
        /\ EcoinventRows[i][1] = name
        /\ EcoinventRows[i][2] = product
        /\ EcoinventRows[i][3] = location

EiTechnosphere(name, product, location, unit, amount) ==
    Exchange("technosphere", name, product, location, unit, amount,
             name_ei_with_regionalized_biosphere, EiCode(name, product, location))

EiProduction(name, product, location, unit) ==
    Exchange("production", name, product, location, unit, ROne,
             name_ei_with_regionalized_biosphere, EiCode(name, product, location))

(* the code of a flow of the biosphere databases *)
BiosphereFlows ==
    <<"Carbon dioxide, fossil", "Ammonia, RER", "Ammonia, RoW", "Ammonia, DE",
      "Ammonia, JP", "Ammonia, US", "Ammonia, GLO", "Ammonia, CH",
      "Ammonia, Europe without Switzerland">>
FlowCode(name) == 500 + (CHOOSE i \in 1..Len(BiosphereFlows) : BiosphereFlows[i] = name)

ElectricityMarketName(g) ==
    (IF g \in MarketGroupGeos THEN "market group for " ELSE "market for ") \o ElecHV

----------------------------------------------------------------------------
(* The input substitutions (transformations.py).  Each takes and returns   *)
(* st = [proc, cache, raised, counted, removed, appended]: the process,    *)
(* the cache of the substitution, the exception raised ("" for none) and   *)
(* the exchanges the call summed, removed and appended.  eidict is         *)
(* regio.ei_in_dict as <<product, location, name>> -> code.                *)

StartSubst(proc, cache) ==
    [proc |-> proc, cache |-> cache, raised |-> "",
     counted |-> <<>>, removed |-> <<>>, appended |-> <<>>]

Raise(st, exception) == [st EXCEPT !.raised = exception]

UnitsOf(excs, Test(_)) == {excs[i]["unit"] : i \in {j \in DOMAIN excs : Test(excs[j])}}
ProductsOf(excs, Test(_)) == {excs[i]["product"] : i \in {j \in DOMAIN excs : Test(excs[j])}}

(* the exchange appended by a substitution: lines 124-140, 221-237, 286-302, 356-369, 543-556 *)
Replacement(proc, amount, product, name, location, unit, code) ==
    [amount |-> amount, product |-> product, name |-> name, location |-> location,
     unit |-> unit, database |-> proc["database"], code |-> code,
     type |-> "technosphere",
     input |-> <<name_ei_with_regionalized_biosphere, code>>,
     output |-> <<proc["database"], proc["code"]>>]

(* sum the exchanges of a product, remove those that satisfy Removed, append one *)
(* exchange to the market (product, region, activity)                             *)
Substitute(st, cache, counted_product, Removed(_), product, region, activity, unit, eidict) ==
    With(st.proc["exchanges"], LAMBDA excs :
    With(SelectSeq(excs, LAMBDA e : e["product"] = counted_product), LAMBDA counted :
    With(SelectSeq(excs, LAMBDA e : ~Removed(e)), LAMBDA kept :
    With([st EXCEPT !.proc = Put(st.proc, "exchanges", kept),
                    !.cache = cache,
                    !.counted = st.counted \o counted,
                    !.removed = st.removed \o SelectSeq(excs, Removed)], LAMBDA after :
        IF <<product, region, activity>> \notin DOMAIN eidict
        THEN Raise(after, "KeyError")
        ELSE With(Replacement(st.proc, AmountSum(counted), product, activity, region,
                              unit, eidict[<<product, region, activity>>]), LAMBDA new :
                 [after EXCEPT !.proc = Put(st.proc, "exchanges", Append(kept, new)),
                               !.appended = st.appended \o <<new>>])))))

(* change_electricity, lines 12-23 *)
IsGridElectricity(exc) ==
    /\ Contains(exc["name"], "electricity")
    /\ ~Contains(exc["name"], "aluminium")
    /\ ~Contains(exc["name"], "cobalt")
    /\ Contains(exc["name"], "voltage")
    /\ ~Contains(exc["name"], "network")

(* the last region of the country's list that is in geos, None when there is none *)
LastRegionIn(country, geos) ==
    With(country_to_ecoinvent_regions[country], LAMBDA regions :
        LET hits == {i \in DOMAIN regions : regions[i] \in geos}
        IN IF hits = {} THEN None
           ELSE regions[CHOOSE i \in hits : \A j \in hits : j <= i])

FirstRegionIn(country, geos) ==
    With(country_to_ecoinvent_regions[country], LAMBDA regions :
        LET hits == {i \in DOMAIN regions : regions[i] \in geos}
        IN IF hits = {} THEN None
           ELSE regions[CHOOSE i \in hits : \A j \in hits : i <= j])

(* lines 64-84 *)
ElectricityRegionMutFirst(country) ==
    LET found ==
          IF country \in electricity_geos THEN country
          ELSE IF Contains(country, "-")
               THEN IF SplitFirst(country, "-") \in electricity_geos
                    THEN SplitFirst(country, "-") ELSE None
               ELSE IF country # "RoW" /\ country \in DOMAIN country_to_ecoinvent_regions
                    THEN FirstRegionIn(country, electricity_geos)
                    ELSE None
    IN IF found = None THEN "GLO" ELSE found

ElectricityRegion(country) ==
    LET found ==
          IF country \in electricity_geos THEN country
          ELSE IF Contains(country, "-")
               THEN IF SplitFirst(country, "-") \in electricity_geos
                    THEN SplitFirst(country, "-") ELSE None
               ELSE IF country # "RoW" /\ country \in DOMAIN country_to_ecoinvent_regions
                    THEN LastRegionIn(country, electricity_geos)
                    ELSE None
    IN IF found = None THEN "GLO" ELSE found

Cached(cache, key, value) == IF key \in DOMAIN cache THEN cache[key] ELSE value

ChangeElectricityOfMutAnyCached(st, product_name, country, eidict) ==
    LET units == UnitsOf(st.proc["exchanges"], IsGridElectricity)
        Activity(region) == (IF region \in MarketGroupGeos THEN "market group for "
                             ELSE "market for ") \o product_name
        product1 == SplitFirst(product_name, ", for Swiss Federal Railways")
        Activity1(region) == SplitFirst(Activity(region), ", for Swiss Federal Railways")
        product2 == SplitFirst(product1, ", renewable energy products")
        Activity2(region) == SplitFirst(Activity1(region), ", renewable energy products")
        Removed(e) == e["product"] = product_name /\ ~Contains(e["name"], "aluminium")
                      /\ ~Contains(e["name"], "cobalt") /\ Contains(e["name"], "voltage")
                      /\ ~Contains(e["name"], "network")
    IN IF Cardinality(units) # 1 THEN Raise(st, "AssertionError")
       ELSE With(IF DOMAIN st.cache # {}
                 THEN st.cache[CHOOSE k \in DOMAIN st.cache : TRUE]
                 ELSE ElectricityRegion(country), LAMBDA region :
                Substitute(st, Put(st.cache, country, region), product_name, Removed,
                           product2, region, Activity2(region), CHOOSE u \in units : TRUE,
                           eidict))

(* one turn of the loop of change_electricity, lines 26-140 *)
ChangeElectricityOf(st, product_name, country, eidict) ==
    LET units == UnitsOf(st.proc["exchanges"], IsGridElectricity)
        Activity(region) == (IF region \in MarketGroupGeos THEN "market group for "
                             ELSE "market for ") \o product_name
        product1 == SplitFirst(product_name, ", for Swiss Federal Railways")
        Activity1(region) == SplitFirst(Activity(region), ", for Swiss Federal Railways")
        product2 == SplitFirst(product1, ", renewable energy products")
        Activity2(region) == SplitFirst(Activity1(region), ", renewable energy products")
        Removed(e) == e["product"] = product_name /\ ~Contains(e["name"], "aluminium")
                      /\ ~Contains(e["name"], "cobalt") /\ Contains(e["name"], "voltage")
                      /\ ~Contains(e["name"], "network")
    IN IF Cardinality(units) # 1 THEN Raise(st, "AssertionError")
       ELSE With(Cached(st.cache, country, ElectricityRegion(country)), LAMBDA region :
                Substitute(st, Put(st.cache, country, region), product_name, Removed,
                           product2, region, Activity2(region), CHOOSE u \in units : TRUE,
                           eidict))

RECURSIVE ChangeElectricityLoop(_, _, _, _)
ChangeElectricityLoop(st, names, country, eidict) ==
    IF names = <<>> \/ st.raised # "" THEN st
    ELSE ChangeElectricityLoop(ChangeElectricityOf(st, Head(names), country, eidict),
                               Tail(names), country, eidict)

(* change_electricity(regio, process, export_country); names is             *)
(* electricity_product_names in the order list(set(...)) gave it            *)
change_electricity(proc, cache, country, names, eidict) ==
    ChangeElectricityLoop(StartSubst(proc, cache), names, country, eidict)

(* change_aluminium_electricity, lines 153-161 *)
IsAluminiumElectricity(exc) ==
    /\ Contains(exc["name"], "electricity")
    /\ Contains(exc["name"], "aluminium")
    /\ Contains(exc["name"], "voltage")

(* lines 191-206 *)
AluminiumElectricityRegion(country) ==
    LET found ==
          IF country \in electricity_aluminium_geos THEN country
          ELSE IF country # "RoW" /\ country \in DOMAIN country_to_ecoinvent_regions
               THEN LastRegionIn(country, electricity_aluminium_geos)
               ELSE None
    IN IF found = None THEN "RoW" ELSE found

(* one turn of the loop of change_aluminium_electricity, lines 163-237 *)
ChangeAluminiumElectricityOf(st, product_name, country, eidict) ==
    LET units == UnitsOf(st.proc["exchanges"], IsAluminiumElectricity)
        Removed(e) == e["product"] = product_name /\ Contains(e["name"], "aluminium")
    IN IF Cardinality(units) # 1 THEN Raise(st, "AssertionError")
       ELSE With(Cached(st.cache, country, AluminiumElectricityRegion(country)),
                 LAMBDA region :
                Substitute(st, Put(st.cache, country, region), product_name, Removed,
                           product_name, region, "market for " \o product_name,
                           CHOOSE u \in units : TRUE, eidict))

RECURSIVE ChangeAluminiumElectricityLoop(_, _, _, _)
ChangeAluminiumElectricityLoop(st, names, country, eidict) ==
    IF names = <<>> \/ st.raised # "" THEN st
    ELSE ChangeAluminiumElectricityLoop(
             ChangeAluminiumElectricityOf(st, Head(names), country, eidict),
             Tail(names), country, eidict)

change_aluminium_electricity(proc, cache, country, names, eidict) ==
    ChangeAluminiumElectricityLoop(StartSubst(proc, cache), names, country, eidict)

(* change_cobalt_electricity, lines 249-253 *)
IsCobaltElectricity(exc) ==
    Contains(exc["name"], "electricity") /\ Contains(exc["name"], "cobalt")

(* one turn of the loop of change_cobalt_electricity, lines 255-302 *)
ChangeCobaltElectricityOf(st, product_name, eidict) ==
    LET units == UnitsOf(st.proc["exchanges"], IsCobaltElectricity)
        Removed(e) == e["product"] = product_name /\ Contains(e["name"], "cobalt")
    IN IF Cardinality(units) # 1 THEN Raise(st, "AssertionError")
       ELSE Substitute(st, st.cache, product_name, Removed,
                       product_name, "GLO", "market for " \o product_name,
                       CHOOSE u \in units : TRUE, eidict)

RECURSIVE ChangeCobaltElectricityLoop(_, _, _)
ChangeCobaltElectricityLoop(st, names, eidict) ==
    IF names = <<>> \/ st.raised # "" THEN st
    ELSE ChangeCobaltElectricityLoop(ChangeCobaltElectricityOf(st, Head(names), eidict),
                                     Tail(names), eidict)

change_cobalt_electricity(proc, names, eidict) ==
    ChangeCobaltElectricityLoop(StartSubst(proc, EmptyDict), names, eidict)

(* lines 332-343 *)
FirstRegionIsRER(country) ==
    /\ country \in DOMAIN country_to_ecoinvent_regions
    /\ country_to_ecoinvent_regions[country][1] = "RER"

WasteRegion(country) ==
    IF country \in waste_geos THEN country
    ELSE IF FirstRegionIsRER(country) THEN "Europe without Switzerland"
    ELSE "RoW"

(* change_waste(regio, process, export_country), lines 314-371 *)
change_waste(proc, cache, country, eidict) ==
    LET st == StartSubst(proc, cache)
        IsWaste(e) == e["product"] = Waste
        units == UnitsOf(proc["exchanges"], IsWaste)
        Activity(region) == (IF region = "Europe without Switzerland"
                             THEN "market group for " ELSE "market for ") \o Waste
    IN IF Cardinality(units) # 1 THEN Raise(st, "AssertionError")
       ELSE With(Cached(cache, country, WasteRegion(country)), LAMBDA region :
                Substitute(st, Put(cache, country, region), Waste, IsWaste,
                           Waste, region, Activity(region), CHOOSE u \in units : TRUE,
                           eidict))

(* a dict whose keys are set in order: d[key] = value *)
DictPut(items, key, value) ==
    IF \E i \in DOMAIN items : items[i].k = key
    THEN [i \in DOMAIN items |->
            IF items[i].k = key THEN [k |-> key, v |-> value] ELSE items[i]]
    ELSE Append(items, [k |-> key, v |-> value])

RECURSIVE DictOf(_, _)
DictOf(items, pairs) ==
    IF pairs = <<>> THEN items
    ELSE DictOf(DictPut(items, Head(pairs).k, Head(pairs).v), Tail(pairs))

RECURSIVE Concat(_)
Concat(seqs) == IF seqs = <<>> THEN <<>> ELSE Head(seqs) \o Concat(Tail(seqs))

(* change_heat, lines 383-388 *)
HeatProcessCountries(heat_flow) ==
    CASE heat_flow = HeatNg -> heat_district_ng
      [] heat_flow = HeatNonNg -> heat_district_non_ng
      [] heat_flow = HeatSmallNonNg -> heat_small_scale_non_ng

(* lines 404-412 *)
RegionHeat(country) ==
    IF country = "CH" THEN "CH"
    ELSE IF FirstRegionIsRER(country) THEN "Europe without Switzerland"
    ELSE "RoW"

HeatExportCountryMutAlwaysRegion(country, heat_flow) ==
    IF FirstRegionIsRER(country) THEN "Europe without Switzerland" ELSE "RoW"

(* lines 415-422 *)
HeatExportCountry(country, heat_flow) ==
    IF country \notin HeatProcessCountries(heat_flow)
    THEN IF FirstRegionIsRER(country) THEN "Europe without Switzerland" ELSE "RoW"
    ELSE country

IsMarket(name) == Contains(name, "market for")
IsMarketOrGroup(name) == Contains(name, "market for") \/ Contains(name, "market group for")

(* lines 430-527: the heat_exchanges dict, eiw being regio.ei_wurst *)
HeatExchanges(heat_flow, region_heat, country, eiw) ==
    LET use_subregion_heat_markets == country \in {"CA", "US", "CN", "BR", "IN"}
        Matches(exc) ==
            /\ exc["type"] = "technosphere"
            /\ exc["product"] = heat_flow
            /\ IF use_subregion_heat_markets THEN Contains(exc["location"], country)
               ELSE exc["location"] = country
        Pair(exc) ==
            [k |-> <<exc["name"],
                     IF use_subregion_heat_markets THEN exc["location"] ELSE country>>,
             v |-> exc["amount"]]
        Quebec(heat_exchanges, row, quebec) ==
            IF row = <<>> \/ quebec = <<>>
            THEN [raised |-> "IndexError", items |-> <<>>]
            ELSE [raised |-> "",
                  items |-> DictPut([i \in DOMAIN heat_exchanges |->
                                        [k |-> heat_exchanges[i].k,
                                         v |-> RMul(heat_exchanges[i].v, row[1]["amount"])]],
                                    <<quebec[1]["name"], "CA-QC">>, quebec[1]["amount"])]
    IN With(SelectSeq(eiw, LAMBDA ds :
                /\ ds["reference product"] = heat_flow
                /\ ds["location"] = region_heat
                /\ ds["database"] = name_ei_with_regionalized_biosphere
                /\ IF use_subregion_heat_markets THEN IsMarketOrGroup(ds["name"])
                   ELSE IsMarket(ds["name"])), LAMBDA region_heat_process :
       With(Concat([i \in DOMAIN region_heat_process |->
                       SelectSeq(region_heat_process[i]["exchanges"], Matches)]),
            LAMBDA found :
       With(DictOf(<<>>, [i \in DOMAIN found |-> Pair(found[i])]), LAMBDA heat_exchanges :
           IF country = "CA" /\ heat_flow # HeatSmallNonNg
           THEN With(SelectSeq(eiw, LAMBDA ds :
                         /\ ds["reference product"] = heat_flow
                         /\ ds["location"] = "GLO"
                         /\ ds["database"] = name_ei_with_regionalized_biosphere
                         /\ IsMarketOrGroup(ds["name"])), LAMBDA global_heat_process :
                    IF Len(global_heat_process) = 0
                    THEN [raised |-> "NoResults", items |-> <<>>]
                    ELSE IF Len(global_heat_process) > 1
                    THEN [raised |-> "MultipleResults", items |-> <<>>]
                    ELSE Quebec(heat_exchanges,
                                SelectSeq(global_heat_process[1]["exchanges"],
                                          LAMBDA e : e["location"] = "RoW"),
                                SelectSeq(global_heat_process[1]["exchanges"],
                                          LAMBDA e : e["location"] = "CA-QC")))
           ELSE [raised |-> "", items |-> heat_exchanges])))

(* lines 529-536: the relative mix, <<name, location, share>> *)
MixEntriesMutNoTotalCheck(items) ==
    [i \in DOMAIN items |->
        <<items[i].k[1], items[i].k[2],
          RDiv(items[i].v, RSumSeq([j \in DOMAIN items |-> items[j].v]))>>]

MixEntries(items) ==
    With(RSumSeq([i \in DOMAIN items |-> items[i].v]), LAMBDA total :
        IF total # RZero
        THEN [i \in DOMAIN items |->
                <<items[i].k[1], items[i].k[2], RDiv(items[i].v, total)>>]
        ELSE <<>>)

(* lines 540-556 *)
RECURSIVE AppendHeat(_, _, _, _, _, _)
AppendHeat(st, entries, heat_flow, qty_of_heat, unit_name, eidict) ==
    IF entries = <<>> THEN st
    ELSE LET heat_name == Head(entries)[1]
             heat_location == Head(entries)[2]
             key == <<heat_flow, heat_location, heat_name>>
         IN IF key \notin DOMAIN eidict THEN Raise(st, "KeyError")
            ELSE With(Replacement(st.proc, RMul(Head(entries)[3], qty_of_heat),
                                  heat_flow, heat_name, heat_location, unit_name,
                                  eidict[key]), LAMBDA new :
                     AppendHeat([st EXCEPT !.proc = Put(st.proc, "exchanges",
                                                        Append(st.proc["exchanges"], new)),
                                           !.appended = Append(st.appended, new)],
                                Tail(entries), heat_flow, qty_of_heat, unit_name, eidict))

(* change_heat(regio, process, export_country, heat_flow) *)
change_heat(proc, cache, country, heat_flow, eidict, eiw) ==
    LET IsHeat(e) == e["product"] = heat_flow
        units == UnitsOf(proc["exchanges"], IsHeat)
        Appended(after, cache_key, entries, qty_of_heat) ==
            AppendHeat([after EXCEPT !.cache = Put(cache, cache_key, entries)],
                       entries, heat_flow, qty_of_heat, CHOOSE u \in units : TRUE, eidict)
    IN IF Cardinality(units) # 1 THEN Raise(StartSubst(proc, cache), "AssertionError")
       ELSE With(SelectSeq(proc["exchanges"], IsHeat), LAMBDA counted :
            With(<<heat_flow, RegionHeat(country), HeatExportCountry(country, heat_flow)>>,
                 LAMBDA cache_key :
            With([StartSubst(Put(proc, "exchanges",
                                 SelectSeq(proc["exchanges"], LAMBDA e : ~IsHeat(e))), cache)
                     EXCEPT !.counted = counted, !.removed = counted], LAMBDA after :
                IF cache_key \in DOMAIN cache
                THEN Appended(after, cache_key, cache[cache_key], AmountSum(counted))
                ELSE With(HeatExchanges(heat_flow, cache_key[2], cache_key[3], eiw),
                          LAMBDA mix :
                         IF mix.raised # "" THEN Raise(after, mix.raised)
                         ELSE Appended(after, cache_key, MixEntries(mix.items),
                                       AmountSum(counted))))))

----------------------------------------------------------------------------
(* The extracted ecoinvent database of the small world *)

RowUnit(name, product, location) ==
    EcoinventRows[EiCode(name, product, location)][4]

Supplier(name, product, location, amount) ==
    EiTechnosphere(name, product, location, RowUnit(name, product, location), amount)

Ammonia(location, amount) ==
    BiosphereExchange("Ammonia, " \o location, <<"air">>, amount,
                      name_spatialized_biosphere, FlowCode("Ammonia, " \o location))

CarbonDioxide(amount) ==
    BiosphereExchange("Carbon dioxide, fossil", <<"air">>, amount, "biosphere3",
                      FlowCode("Carbon dioxide, fossil"))

(* the inputs of an ecoinvent process *)
EiInputs(name, product, location) ==
    CASE product \in HeatFlows /\ IsMarketOrGroup(name) ->
            LET suppliers == HeatSuppliers(product, location)
            IN [i \in DOMAIN suppliers |->
                   Supplier(suppliers[i][1], product, suppliers[i][2], suppliers[i][3])]
      [] name = Converter ->
            <<Supplier(ElectricityMarketName(IF location = "RER" THEN "RER" ELSE "GLO"),
                       ElecHV, IF location = "RER" THEN "RER" ELSE "GLO", Rat(1, 2)),
              Supplier("market for " \o Steel, Steel, "GLO", Rat(1, 10)),
              Supplier("market for " \o Lime, Lime, "RoW", Rat(1, 20)),
              Supplier(Converter, Steel, "RoW", Rat(1, 50)),
              Supplier("market for " \o Waste, Waste, "RoW", Rat(-1, 100)),
              Ammonia(location, Rat(1, 100))>>
      [] name = Electric ->
            <<Supplier(ElectricityMarketName("GLO"), ElecHV, "GLO", RInt(3)),
              Supplier(ElectricityMarketName("RER"), ElecHV, "RER", RInt(4)),
              Supplier("market for " \o ElecAlu, ElecAlu, "RoW", Rat(1, 4)),
              Supplier("market for " \o Waste, Waste, "RoW", Rat(-1, 50)),
              CarbonDioxide(Rat(1, 10)), CarbonDioxide(Rat(1, 20))>>
      [] name = "market for " \o Steel /\ location = "IN" ->
            <<Supplier(Converter, Steel, "RoW", Rat(4, 5)),
              Supplier(Electric, Steel, "RoW", Rat(1, 5)),
              Supplier("market for " \o SeaTransport, SeaTransport, "GLO", Rat(1, 2))>>
      [] name = "market for " \o Steel /\ location = "GLO" ->
            <<Supplier(Converter, Steel, "RER", Rat(3, 10)),
              Supplier(Converter, Steel, "RoW", Rat(1, 2)),
              Supplier(Electric, Steel, "RoW", Rat(1, 5)),
              Supplier("market for " \o SeaTransport, SeaTransport, "GLO", Rat(3, 2))>>
      [] name = LimeProduction ->
            <<Supplier(ElectricityMarketName(IF location = "CH" THEN "CH" ELSE "GLO"),
                       ElecHV, IF location = "CH" THEN "CH" ELSE "GLO", Rat(1, 5)),
              Supplier("market for " \o Steel, Steel, "GLO", Rat(1, 100)),
              Supplier(Electric, Steel, "RoW", Rat(1, 200)),
              CarbonDioxide(Rat(3, 4))>>
      [] name = "market for " \o Lime ->
            <<Supplier(LimeProduction, Lime, "RoW", ROne)>>
      [] name = CarProduction ->
            <<Supplier("market for " \o Steel, Steel, "GLO", RInt(800)),
              Supplier("market for " \o Lime, Lime, "RoW", RInt(2)),
              Supplier(Converter, Steel, "RER", RInt(100)),
              Supplier("market for " \o Steel, Steel, "GLO", RInt(50)),
              Supplier(Electric, Steel, "DE", RInt(10))>>
      [] OTHER -> <<>>

EiProcess(i) ==
    LET row == EcoinventRows[i]
    IN Process(row[1], row[2], row[3], row[4], name_ei_with_regionalized_biosphere, i,
               <<EiProduction(row[1], row[2], row[3], row[4])>>
                   \o EiInputs(row[1], row[2], row[3]))

Ecoinvent == [i \in 1..Len(EcoinventRows) |-> EiProcess(i)]

(* pipeline.py 59-62: regio.ei_in_dict, here down to the code of each record *)
EiInDict(eiw) ==
    [key \in {<<eiw[i]["reference product"], eiw[i]["location"], eiw[i]["name"]>> :
                 i \in DOMAIN eiw} |->
        LET hits == {i \in DOMAIN eiw :
                        <<eiw[i]["reference product"], eiw[i]["location"], eiw[i]["name"]>> = key}
        IN eiw[CHOOSE i \in hits : \A j \in hits : j <= i]["code"]]

----------------------------------------------------------------------------
(* Cloning a template: first_order.py 11-15 and copy_process (196-235,     *)
(* 420-458).  The clone and its exchanges are new dicts.                   *)

(* regio.source_db_name: the name of the ecoinvent database, an attribute   *)
(* the workflows read and never assign                                     *)
source_db_name == "ecoinvent"
(* io_ops.py 58: the name write_database gives the target database; it is  *)
(* also the value regio.target_db_name has before the first write          *)
DefaultTargetDbName == source_db_name \o " - regionalized"

FirstIndex(excs, Test(_)) ==
    CHOOSE i \in DOMAIN excs : Test(excs[i]) /\ \A j \in 1..(i - 1) : ~Test(excs[j])

IsProduction(exc) == exc["type"] = "production"

CopyProcessMutKeepCode(process, prod_country, code, database, traded) ==
    LET moved == [process EXCEPT !["location"] = prod_country,
                                 !["database"] = database]
        typed == IF traded THEN Put(moved, "type", "process") ELSE moved
        excs == process["exchanges"]
        p == FirstIndex(excs, IsProduction)
        production ==
            Put([excs[p] EXCEPT !["database"] = database,
                                !["location"] = prod_country],
                "input", <<database, process["code"]>>)
    IN [typed EXCEPT !["exchanges"] = [excs EXCEPT ![p] = production]]

CopyProcess(process, prod_country, code, database, traded) ==
    LET moved == [process EXCEPT !["location"] = prod_country,
                                 !["code"] = code,
                                 !["database"] = database]
        typed == IF traded THEN Put(moved, "type", "process") ELSE moved
        excs == process["exchanges"]
        p == FirstIndex(excs, IsProduction)
        production ==
            Put([excs[p] EXCEPT !["code"] = code,
                                !["database"] = database,
                                !["location"] = prod_country],
                "input", <<database, code>>)
    IN [typed EXCEPT !["exchanges"] = [excs EXCEPT ![p] = production]]

(* get_template_input_flags, first_order.py 257-278 and 509-530 *)
TemplateInputFlags(process) ==
    LET excs == process["exchanges"]
        names == {Get(excs[i], "name", "") : i \in DOMAIN excs}
        products == {Get(excs[i], "product", "") : i \in DOMAIN excs}
    IN [alu_elec |-> \E n \in names : Contains(n, "electricity") /\ Contains(n, "aluminium"),
        cobalt_elec |-> \E n \in names : Contains(n, "electricity") /\ Contains(n, "cobalt"),
        voltage_elec |-> \E n \in names : Contains(n, "electricity") /\ Contains(n, "voltage"),
        waste |-> Waste \in products,
        heat_ng |-> HeatNg \in products,
        heat_non_ng |-> HeatNonNg \in products,
        heat_small_non_ng |-> HeatSmallNonNg \in products]

----------------------------------------------------------------------------
(* SpecSubst: the body of the loop of first_order.py 537-614 for one       *)
(* template and one geography                                              *)

MaxInputs == 2       \* most inputs of a template besides its production exchange

GridVoltage == "electricity voltage transformation from high to medium voltage"
Incineration == "treatment of municipal solid waste, incineration"

(* the inputs a template is drawn from *)
SubstInputs ==
    <<Supplier(ElectricityMarketName("GLO"), ElecHV, "GLO", RInt(3)),
      Supplier(ElectricityMarketName("CH"), ElecHV, "CH", RInt(4)),
      Exchange("technosphere", "electricity production, hydro, run-of-river", ElecHV,
               "CH", Kwh, RInt(2), name_ei_with_regionalized_biosphere, 901),
      Exchange("technosphere", "market for transmission network, electricity, high voltage",
               "transmission network, electricity, high voltage", "GLO", "kilometer",
               Rat(1, 100), name_ei_with_regionalized_biosphere, 902),
      Exchange("technosphere", "market for " \o ElecSBB, ElecSBB, "CH", Kwh, ROne,
               name_ei_with_regionalized_biosphere, 903),
      Supplier("market for " \o ElecAlu, ElecAlu, "IAI Area, EU27 & EFTA", RInt(5)),
      Supplier("market for " \o ElecCobalt, ElecCobalt, "GLO", ROne),
      Supplier("market for " \o Waste, Waste, "RoW", RInt(-1)),
      Supplier("market for " \o HeatNg, HeatNg, "RoW", RInt(4)),
      Supplier(HeatProduction(HeatNg), HeatNg, "RoW", RInt(2)),
      Supplier("market for " \o HeatNonNg, HeatNonNg, "RoW", RInt(3)),
      Supplier("market for " \o HeatSmallNonNg, HeatSmallNonNg, "RoW", ROne),
      CarbonDioxide(Rat(1, 10))>>

(* name, reference product, unit of the templates *)
SubstHeads ==
    {<<Converter, Steel, Kg>>,
     <<HeatProduction(HeatNg), HeatNg, Mj>>,
     <<GridVoltage, "electricity, medium voltage", Kwh>>,
     <<Incineration, Waste, Kg>>}

SubstGeos == {"DE", "LI", "CH", "JP", "US", "CA", "RoW"}

SubstTemplate(head, picked) ==
    Process(head[1], head[2], "RoW", head[3], name_ei_with_regionalized_biosphere, 900,
            <<Exchange("production", head[1], head[2], "RoW", head[3],
                       IF head[2] = Waste THEN RInt(-1) ELSE ROne,
                       name_ei_with_regionalized_biosphere, 900)>>
               \o [i \in 1..Cardinality(picked) |->
                      SubstInputs[CHOOSE k \in picked :
                                     Cardinality({j \in picked : j < k}) = i - 1]])

SubstTemplates ==
    {SubstTemplate(head, picked) :
        head \in SubstHeads,
        picked \in {S \in SUBSET (1..Len(SubstInputs)) : Cardinality(S) <= MaxInputs}}

SubstEiInDict == EiInDict(Ecoinvent)

InitSubst ==
    /\ mode = "subst"
    /\ cutoff = 0
    /\ uuid_next = FirstUuid
    /\ SharesIdle
    /\ PipelineIdle
    /\ sub_pc = "template"
    /\ template \in SubstTemplates
    /\ geo \in SubstGeos
    /\ regio_process = NoProcess
    /\ electricity_region_cache = EmptyDict
    /\ aluminium_electricity_region_cache = EmptyDict
    /\ waste_region_cache = EmptyDict
    /\ heat_mix_cache = EmptyDict
    /\ sub_last = "" /\ sub_counted = <<>> /\ sub_removed = <<>> /\ sub_appended = <<>>

(* the result of a substitution becomes the state of the loop body *)
Finish(st, next_pc, last) ==
    /\ regio_process' = st.proc
    /\ sub_pc' = IF st.raised # "" THEN "raised" ELSE next_pc
    /\ sub_last' = last
    /\ sub_counted' = st.counted
    /\ sub_removed' = st.removed
    /\ sub_appended' = st.appended

SubstFrame == UNCHANGED <<mode, cutoff, shareVars, template, geo, pipelineVars>>

(* first_order.py 543-571: the template is copied for the geography *)
SubstCopyProcess ==
    /\ mode = "subst" /\ sub_pc = "template"
    /\ regio_process' = CopyProcess(template, geo, uuid_next, DefaultTargetDbName, FALSE)
    /\ uuid_next' = uuid_next + 1
    /\ sub_pc' = "electricity"
    /\ UNCHANGED <<cacheVars, sub_last, sub_counted, sub_removed, sub_appended>>
    /\ SubstFrame

(* lines 580-581 *)
SubstChangeAluminiumElectricity ==
    /\ mode = "subst" /\ sub_pc = "electricity"
    /\ TemplateInputFlags(template).alu_elec
    /\ \E names \in Orders(ProductsOf(regio_process["exchanges"], IsAluminiumElectricity)) :
          LET st == change_aluminium_electricity(regio_process,
                        aluminium_electricity_region_cache, geo, names, SubstEiInDict)
          IN /\ Finish(st, "waste", "change_aluminium_electricity")
             /\ aluminium_electricity_region_cache' = st.cache
    /\ UNCHANGED <<uuid_next, electricity_region_cache, waste_region_cache, heat_mix_cache>>
    /\ SubstFrame

(* lines 583-584 *)
SubstChangeCobaltElectricity ==
    /\ mode = "subst" /\ sub_pc = "electricity"
    /\ ~TemplateInputFlags(template).alu_elec
    /\ TemplateInputFlags(template).cobalt_elec
    /\ \E names \in Orders(ProductsOf(regio_process["exchanges"], IsCobaltElectricity)) :
          Finish(change_cobalt_electricity(regio_process, names, SubstEiInDict),
                 "waste", "change_cobalt_electricity")
    /\ UNCHANGED <<uuid_next, cacheVars>>
    /\ SubstFrame

(* lines 586-587 *)
SubstChangeElectricity ==
    /\ mode = "subst" /\ sub_pc = "electricity"
    /\ ~TemplateInputFlags(template).alu_elec
    /\ ~TemplateInputFlags(template).cobalt_elec
    /\ TemplateInputFlags(template).voltage_elec
    /\ \E names \in Orders(ProductsOf(regio_process["exchanges"], IsGridElectricity)) :
          LET st == change_electricity(regio_process, electricity_region_cache, geo,
                                       names, SubstEiInDict)
          IN /\ Finish(st, "waste", "change_electricity")
             /\ electricity_region_cache' = st.cache
    /\ UNCHANGED <<uuid_next, aluminium_electricity_region_cache, waste_region_cache,
                   heat_mix_cache>>
    /\ SubstFrame

(* lines 589-590 *)
SubstChangeWaste ==
    /\ mode = "subst" /\ sub_pc = "waste"
    /\ TemplateInputFlags(template).waste
    /\ LET st == change_waste(regio_process, waste_region_cache, geo, SubstEiInDict)
       IN /\ Finish(st, "heat_ng", "change_waste")
          /\ waste_region_cache' = st.cache
    /\ UNCHANGED <<uuid_next, electricity_region_cache, aluminium_electricity_region_cache,
                   heat_mix_cache>>
    /\ SubstFrame

HeatStepFlow(pc) ==
    CASE pc = "heat_ng" -> HeatNg
      [] pc = "heat_non_ng" -> HeatNonNg
      [] pc = "heat_small_non_ng" -> HeatSmallNonNg

NextSubstPc(pc) ==
    CASE pc = "electricity" -> "waste"
      [] pc = "waste" -> "heat_ng"
      [] pc = "heat_ng" -> "heat_non_ng"
      [] pc = "heat_non_ng" -> "heat_small_non_ng"
      [] pc = "heat_small_non_ng" -> "register"

(* lines 592-611 *)
SubstChangeHeat ==
    /\ mode = "subst" /\ sub_pc \in {"heat_ng", "heat_non_ng", "heat_small_non_ng"}
    /\ TemplateInputFlags(template)[sub_pc]
    /\ LET st == change_heat(regio_process, heat_mix_cache, geo, HeatStepFlow(sub_pc),
                             SubstEiInDict, Ecoinvent)
       IN /\ Finish(st, NextSubstPc(sub_pc), "change_heat")
          /\ heat_mix_cache' = st.cache
    /\ UNCHANGED <<uuid_next, electricity_region_cache, aluminium_electricity_region_cache,
                   waste_region_cache>>
    /\ SubstFrame

(* a substitution whose flag is not set is not called *)
SubstNotCalled ==
    /\ mode = "subst"
    /\ \/ /\ sub_pc = "electricity"
          /\ ~TemplateInputFlags(template).alu_elec
          /\ ~TemplateInputFlags(template).cobalt_elec
          /\ ~TemplateInputFlags(template).voltage_elec
       \/ /\ sub_pc \in {"waste", "heat_ng", "heat_non_ng", "heat_small_non_ng"}
          /\ ~TemplateInputFlags(template)[sub_pc]
    /\ sub_pc' = NextSubstPc(sub_pc)
    /\ sub_last' = "" /\ sub_counted' = <<>> /\ sub_removed' = <<>> /\ sub_appended' = <<>>
    /\ UNCHANGED <<uuid_next, regio_process, cacheVars>>
    /\ SubstFrame

(* lines 613-614 *)
SubstRegister ==
    /\ mode = "subst" /\ sub_pc = "register"
    /\ sub_pc' = "done"
    /\ UNCHANGED <<uuid_next, regio_process, cacheVars, sub_last, sub_counted, sub_removed,
                   sub_appended>>
    /\ SubstFrame

NextSubst ==
    \/ SubstCopyProcess
    \/ SubstChangeAluminiumElectricity
    \/ SubstChangeCobaltElectricity
    \/ SubstChangeElectricity
    \/ SubstChangeWaste
    \/ SubstChangeHeat
    \/ SubstNotCalled
    \/ SubstRegister

SpecSubst == InitSubst /\ [][NextSubst]_vars

----------------------------------------------------------------------------
(* Claims on the input substitutions *)

SubstReturned == mode = "subst" /\ sub_last # "" /\ sub_pc # "raised"
CloneExists == mode = "subst" /\ sub_pc \notin {"template", "raised"}

IsOneOf(exc, excs) == \E i \in DOMAIN excs : excs[i] = exc

(* C7: for every process and every resource category (electricity,         *)
(* aluminium electricity, cobalt electricity, municipal solid waste, each  *)
(* heat category) the amounts of the exchanges a substitution appended sum *)
(* to the amounts of the exchanges it removed, and every exchange whose    *)
(* amount it counted in the summed quantity is one it removed.             *)
C7_MassConservation ==
    SubstReturned =>
        /\ AmountSum(sub_appended) = AmountSum(sub_removed)
        /\ \A i \in DOMAIN sub_counted : IsOneOf(sub_counted[i], sub_removed)

(* C8: every created process has exactly one exchange of type production   *)
(* and its input is the process's own (database, code), after cloning and  *)
(* after every later operation on the process.                             *)
C8_OneProductionExchange ==
    CloneExists =>
        LET productions == SelectSeq(regio_process["exchanges"], IsProduction)
        IN /\ Len(productions) = 1
           /\ productions[1]["input"] = <<regio_process["database"], regio_process["code"]>>

----------------------------------------------------------------------------
(* The tables a Regioinvent instance loads (main.py 82-139) and the files  *)
(* read by first_order.py 385-400 and elem_spatialization.py 16-25, for    *)
(* the small world: steel is the traded commodity, lime the relevant       *)
(* non-traded product.                                                     *)

eco_to_hs_class == (Steel :> "720810")
relevant_non_traded_products == <<Lime>>
geographies_needed == <<"CA", "CH", "DE", "RoW">>
no_inputs_processes == {}
spatialized_elem_flows == ("Ammonia" :> {"air"})
(* (name, categories) -> code of the flows of biosphere3_spatialized_flows *)
regionalized_flows ==
    [key \in {<<BiosphereFlows[i], <<"air">>>> : i \in 2..Len(BiosphereFlows)} |->
        FlowCode(key[1])]

----------------------------------------------------------------------------
(* first_order_regionalization: the indices over regio.ei_wurst (28-65)    *)

IsNonMarket(ds) ==
    /\ ~IsMarketOrGroup(ds["name"])
    /\ ~Contains(ds["name"], "generic market")
    /\ ~Contains(ds["name"], "import from")

non_market_by_product(eiw, product) ==
    SelectSeq(eiw, LAMBDA ds : ds["reference product"] = product /\ IsNonMarket(ds))

market_by_product(eiw, product) ==
    SelectSeq(eiw, LAMBDA ds : ds["reference product"] = product
                               /\ IsMarketOrGroup(ds["name"]))

(* exact_process_lookup[key], key = (product, name, location, database);   *)
(* NoProcess stands for the KeyError                                       *)
exact_process_lookup(eiw, key) ==
    LET hits == {i \in DOMAIN eiw :
                    /\ IsNonMarket(eiw[i])
                    /\ <<eiw[i]["reference product"], eiw[i]["name"], eiw[i]["location"],
                         eiw[i]["database"]>> = key}
    IN IF hits = {} THEN NoProcess ELSE eiw[CHOOSE i \in hits : \A j \in hits : j <= i]

market_candidates_lookup(eiw, product, location, database) ==
    SelectSeq(eiw, LAMBDA ds :
        /\ IsMarketOrGroup(ds["name"])
        /\ ~Contains(ds["name"], "generic market")
        /\ ~Contains(ds["name"], "to market")
        /\ ds["reference product"] = product
        /\ ds["location"] = location
        /\ ds["database"] = database)

(* lines 95-104 and 409-418: possibilities, technology -> its geographies, *)
(* as the items of the dict in insertion order                             *)
Possibilities(filter_processes) ==
    LET firsts == SelectSeq([i \in DOMAIN filter_processes |-> i],
                            LAMBDA i : \A j \in 1..(i - 1) :
                                filter_processes[j]["name"] # filter_processes[i]["name"])
    IN [n \in DOMAIN firsts |->
          LET tech == filter_processes[firsts[n]]["name"]
              same == SelectSeq(filter_processes, LAMBDA ds : ds["name"] = tech)
          IN [k |-> tech, v |-> [i \in DOMAIN same |-> same[i]["location"]]]]

Keys(items) == [i \in DOMAIN items |-> items[i].k]
Item(items, key) == items[CHOOSE i \in DOMAIN items : items[i].k = key].v

(* lines 281-316 and 533-571: the regions copy_process is called with for  *)
(* one technology and one country, in order; the last one is the template  *)
(* of the process that is registered                                       *)
TemplateRegions(possible, country) ==
    LET regions ==
          IF country \in DOMAIN country_to_ecoinvent_regions
          THEN SelectSeq(country_to_ecoinvent_regions[country],
                         LAMBDA r : r \in Range(possible))
          ELSE <<>>
    IN IF country \in Range(possible) /\ country # "RoW" THEN <<country>>
       ELSE IF regions # <<>> THEN regions
       ELSE IF "RoW" \in Range(possible) THEN <<"RoW">>
       ELSE IF "GLO" \in Range(possible) THEN <<"GLO">>
       ELSE IF possible # <<>> THEN <<possible[1]>>
       ELSE <<>>

(* lines 107-138: the share of each technology in the markets of ecoinvent *)
(* for the product, as items in the order of the technologies              *)
DistributionTechnologies(eiw, product) ==
    LET techs == Keys(Possibilities(non_market_by_product(eiw, product)))
        markets == market_by_product(eiw, product)
        excs == Concat([i \in DOMAIN markets |-> markets[i]["exchanges"]])
        amount(tech) ==
            AmountSum(SelectSeq(excs, LAMBDA e : e["product"] = product /\ e["name"] = tech))
        sum_ == RSumSeq([i \in DOMAIN techs |-> amount(techs[i])])
    IN [i \in DOMAIN techs |->
          [k |-> techs[i],
           v |-> IF sum_ # RZero THEN RDiv(amount(techs[i]), sum_)
                 ELSE Rat(1, Len(techs))]]

(* lines 117-122 and 135-138: code of a transport market -> mean amount    *)
TransportationModes(eiw, product) ==
    LET markets == market_by_product(eiw, product)
        excs == Concat([i \in DOMAIN markets |-> markets[i]["exchanges"]])
        hits == SelectSeq(excs, LAMBDA e : /\ Contains(e["name"], "transport")
                                           /\ e["unit"] = Tkm
                                           /\ IsMarketOrGroup(e["name"]))
        items == DictOf(<<>>, [i \in DOMAIN hits |->
                                  [k |-> hits[i]["code"], v |-> hits[i]["amount"]]])
    IN IF Len(markets) > 1
       THEN [i \in DOMAIN items |->
               [items[i] EXCEPT !.v = RDiv(items[i].v, RInt(Len(markets)))]]
       ELSE items

(* lines 113-122 read exc["product"], exc["name"] and exc["unit"] of every *)
(* exchange of the markets: a missing key is a KeyError                    *)
MarketExchangesReadable(eiw, product) ==
    LET markets == market_by_product(eiw, product)
        excs == Concat([i \in DOMAIN markets |-> markets[i]["exchanges"]])
    IN \A i \in DOMAIN excs : {"product", "name", "unit"} \subseteq DOMAIN excs[i]

(* lines 141-192: the production market, a deep copy of the last process   *)
(* that produces the product, with only its production exchange            *)
GlobalMarketActivity(dataset, product, code, database) ==
    LET name == "production market for " \o product
    IN [dataset EXCEPT
          !["name"] = name,
          !["location"] = "GLO",
          !["code"] = code,
          !["database"] = database,
          !["exchanges"] =
              <<[amount |-> ROne, type |-> "production",
                 product |-> dataset["reference product"], name |-> name,
                 unit |-> dataset["unit"], location |-> "GLO", database |-> database,
                 code |-> code, input |-> <<database, code>>,
                 output |-> <<database, code>>]>>]

(* lines 237-254: the share of a clone put into the production market; its *)
(* code is the code of the market                                          *)
MarketEdge(clone, market, amount, prod_country, database) ==
    [amount |-> amount, type |-> "technosphere", name |-> clone["name"],
     product |-> clone["reference product"], unit |-> clone["unit"],
     location |-> prod_country, database |-> database, code |-> market["code"],
     input |-> <<clone["database"], clone["code"]>>,
     output |-> <<market["database"], market["code"]>>]

(* lines 360-379: the transport exchanges of the production market *)
TransportEdges(eiw, modes) ==
    LET ref_product(code) ==
            LET hits == {i \in DOMAIN eiw : eiw[i]["code"] = code}
            IN IF hits = {} THEN None
               ELSE eiw[CHOOSE i \in hits : \A j \in hits : j <= i]["reference product"]
        known == SelectSeq(modes, LAMBDA item : ref_product(item.k) # None)
    IN [i \in DOMAIN known |->
          [amount |-> known[i].v, type |-> "technosphere",
           database |-> name_ei_with_regionalized_biosphere, code |-> known[i].k,
           product |-> ref_product(known[i].k),
           input |-> <<name_ei_with_regionalized_biosphere, known[i].k>>]]

(* lines 320-354 and 575-611: the substitutions the flags of the template  *)
(* ask for, on one clone.  caches = [elec, alu, waste, heat].  A template  *)
(* of the small world has at most one electricity product, so the order of *)
(* list(set(...)) is the only one.                                         *)
Substitutions(proc, caches, flags, country, eidict, eiw) ==
    LET names(Test(_)) == CHOOSE o \in Orders(ProductsOf(proc["exchanges"], Test)) : TRUE
        Electricity ==
            IF flags.alu_elec
            THEN change_aluminium_electricity(proc, caches.alu, country,
                                              names(IsAluminiumElectricity), eidict)
            ELSE IF flags.cobalt_elec
            THEN change_cobalt_electricity(proc, names(IsCobaltElectricity), eidict)
            ELSE IF flags.voltage_elec
            THEN change_electricity(proc, caches.elec, country,
                                    names(IsGridElectricity), eidict)
            ELSE StartSubst(proc, EmptyDict)
        After(e) ==
            IF flags.alu_elec THEN [caches EXCEPT !.alu = e.cache]
            ELSE IF ~flags.cobalt_elec /\ flags.voltage_elec
            THEN [caches EXCEPT !.elec = e.cache]
            ELSE caches
        ChangeWaste(e, c1) ==
            IF e.raised = "" /\ flags.waste
            THEN change_waste(e.proc, c1.waste, country, eidict)
            ELSE [e EXCEPT !.cache = c1.waste]
        Heat(st, flag, heat_flow) ==
            IF st.raised = "" /\ flag
            THEN change_heat(st.proc, st.cache, country, heat_flow, eidict, eiw)
            ELSE st
    IN With(Electricity, LAMBDA e :
       With(After(e), LAMBDA c1 :
       With(ChangeWaste(e, c1), LAMBDA w :
       With(Heat([w EXCEPT !.cache = c1.heat], flags.heat_ng, HeatNg), LAMBDA h1 :
       With(Heat(h1, flags.heat_non_ng, HeatNonNg), LAMBDA h2 :
       With(Heat(h2, flags.heat_small_non_ng, HeatSmallNonNg), LAMBDA h3 :
           [raised |-> h3.raised, proc |-> h3.proc,
            caches |-> [c1 EXCEPT !.waste = w.cache, !.heat = h3.cache]]))))))

(* The state a stage works on: fo = [raised, uuid, objs, riw, caches,      *)
(* market], the exception raised ("" for none), the next uuid4 value, the  *)
(* created process objects (objs[i] is object i), regioinvent_in_wurst as  *)
(* the list of its objects, the caches of the substitutions and the        *)
(* production market being filled.                                         *)

(* copy_process for each region of `regions` in turn (lines 196-255): each *)
(* call draws a code and puts an edge into the production market; the      *)
(* result is [fo, proc], proc the last copy (NoProcess if none)            *)
RECURSIVE CopyTraded(_, _, _, _, _)
CopyTraded(res, regions, key, amount, eiw) ==
    IF regions = <<>> \/ res.fo.raised # "" THEN res
    ELSE With(exact_process_lookup(eiw,
                  <<key.product, key.technology, Head(regions),
                    name_ei_with_regionalized_biosphere>>), LAMBDA process :
         IF process = NoProcess
         THEN [res EXCEPT !.fo.raised = "KeyError"]
         ELSE With(CopyProcess(process, key.country, res.fo.uuid, key.database, TRUE),
                   LAMBDA clone :
              CopyTraded(
                 [fo |-> [res.fo EXCEPT
                             !.uuid = @ + 1,
                             !.market["exchanges"] =
                                 Append(@, MarketEdge(clone, res.fo.market, amount,
                                                      key.country, key.database))],
                  proc |-> clone],
                 Tail(regions), key, amount, eiw)))

(* one turn of the loop over technologies and producers, lines 282-357 *)
TradedTurn(fo, product, technology, producer, possible, amount, database, eiw) ==
    LET key == [product |-> product, technology |-> technology, country |-> producer,
                database |-> database]
        CopiedFrom(regions) ==
            exact_process_lookup(eiw, <<product, technology, regions[Len(regions)],
                                        name_ei_with_regionalized_biosphere>>)
    IN With(TemplateRegions(possible, producer), LAMBDA regions :
       With(CopyTraded([fo |-> fo, proc |-> NoProcess], regions, key, amount, eiw),
            LAMBDA copied :
           IF copied.fo.raised # "" \/ regions = <<>> THEN copied.fo
           ELSE With(Substitutions(copied.proc, copied.fo.caches,
                                   TemplateInputFlags(CopiedFrom(regions)),
                                   producer, EiInDict(eiw), eiw), LAMBDA done :
                    IF done.raised # ""
                    THEN [copied.fo EXCEPT !.raised = done.raised, !.caches = done.caches]
                    ELSE [copied.fo EXCEPT
                             !.caches = done.caches,
                             !.objs = Append(@, done.proc),
                             !.riw = Append(@, Len(copied.fo.objs) + 1)])))

RECURSIVE TradedLoop(_, _, _, _, _, _)
TradedLoop(fo, turns, product, shares, database, eiw) ==
    IF turns = <<>> \/ fo.raised # "" THEN fo
    ELSE With(Head(turns), LAMBDA t :
            TradedLoop(
                TradedTurn(fo, product, t.technology, t.producer, t.possible,
                           RMul(shares.share[t.producer], t.share), database, eiw),
                Tail(turns), product, shares, database, eiw))

(* lines 70-381 for one traded product.  q is cmd_prod_data and order the  *)
(* index sort_values gave; tables = [created_geographies,                  *)
(* distribution_technologies, transportation_modes, unit].                 *)
FirstOrderTraded(fo, tables, product, q, order, c, database, eiw) ==
    LET Turns(possibilities, distribution, index) ==
            Concat([i \in DOMAIN possibilities |->
                [j \in DOMAIN index |->
                    [technology |-> possibilities[i].k,
                     possible |-> possibilities[i].v,
                     share |-> Item(distribution, possibilities[i].k),
                     producer |-> index[j]]]])
    IN With(Producers(q, order, c), LAMBDA shares :
       With(non_market_by_product(eiw, product), LAMBDA filter_processes :
       With(DistributionTechnologies(eiw, product), LAMBDA distribution :
       With(TransportationModes(eiw, product), LAMBDA modes :
       With([tables EXCEPT !.created_geographies = Put(@, product, shares.index)],
            LAMBDA tables1 :
       With([tables1 EXCEPT
                !.distribution_technologies = Put(@, product, distribution),
                !.transportation_modes = Put(@, product, modes)], LAMBDA tables2 :
           IF Limit(q, order, c) = 0
           THEN [fo |-> [fo EXCEPT !.raised = "IndexError"], tables |-> tables]
           ELSE IF ~MarketExchangesReadable(eiw, product)
           THEN [fo |-> [fo EXCEPT !.raised = "KeyError"], tables |-> tables1]
           ELSE IF filter_processes = <<>>
           THEN [fo |-> [fo EXCEPT !.raised = "NameError"], tables |-> tables2]
           ELSE With(GlobalMarketActivity(filter_processes[Len(filter_processes)],
                                          product, fo.uuid, database), LAMBDA market :
                With(TradedLoop([fo EXCEPT !.uuid = fo.uuid + 1, !.market = market],
                                Turns(Possibilities(filter_processes), distribution,
                                      shares.index),
                                product, shares, database, eiw), LAMBDA looped :
                With([tables2 EXCEPT !.unit = Put(@, product, market["unit"])],
                     LAMBDA tables3 :
                    IF looped.raised # ""
                    THEN [fo |-> looped, tables |-> tables3]
                    ELSE [fo |-> [looped EXCEPT
                                     !.objs = Append(@,
                                         [looped.market EXCEPT
                                             !["exchanges"] =
                                                 @ \o TransportEdges(eiw, modes)]),
                                     !.riw = Append(@, Len(looped.objs) + 1),
                                     !.market = NoProcess],
                          tables |-> tables3])))))))))

(* copy_process of the second loop (lines 420-458) for each region *)
RECURSIVE CopyNonTraded(_, _, _, _)
CopyNonTraded(res, regions, key, eiw) ==
    IF regions = <<>> \/ res.fo.raised # "" THEN res
    ELSE With(exact_process_lookup(eiw,
                  <<key.product, key.technology, Head(regions),
                    name_ei_with_regionalized_biosphere>>), LAMBDA process :
         IF process = NoProcess
         THEN [res EXCEPT !.fo.raised = "KeyError"]
         ELSE CopyNonTraded(
                 [fo |-> [res.fo EXCEPT !.uuid = @ + 1],
                  proc |-> CopyProcess(process, key.country, res.fo.uuid, key.database,
                                       FALSE)],
                 Tail(regions), key, eiw))

(* one turn of the loop over technologies and geographies, lines 537-614 *)
NonTradedTurn(fo, product, technology, country, possible, database, eiw) ==
    LET key == [product |-> product, technology |-> technology, country |-> country,
                database |-> database]
        CopiedFrom(regions) ==
            exact_process_lookup(eiw, <<product, technology, regions[Len(regions)],
                                        name_ei_with_regionalized_biosphere>>)
    IN With(TemplateRegions(possible, country), LAMBDA regions :
       With(CopyNonTraded([fo |-> fo, proc |-> NoProcess], regions, key, eiw),
            LAMBDA copied :
           IF copied.fo.raised # "" \/ regions = <<>> THEN copied.fo
           ELSE With(Substitutions(copied.proc, copied.fo.caches,
                                   TemplateInputFlags(CopiedFrom(regions)),
                                   country, EiInDict(eiw), eiw), LAMBDA done :
                    IF done.raised # ""
                    THEN [copied.fo EXCEPT !.raised = done.raised, !.caches = done.caches]
                    ELSE [copied.fo EXCEPT
                             !.caches = done.caches,
                             !.objs = Append(@, done.proc),
                             !.riw = Append(@, Len(copied.fo.objs) + 1)])))

RECURSIVE NonTradedLoop(_, _, _, _, _)
NonTradedLoop(fo, turns, product, database, eiw) ==
    IF turns = <<>> \/ fo.raised # "" THEN fo
    ELSE NonTradedLoop(
            NonTradedTurn(fo, product, Head(turns).technology, Head(turns).country,
                          Head(turns).possible, database, eiw),
            Tail(turns), product, database, eiw)

(* copy_market, lines 460-507, of an existing market: the clone is renamed *)
CopyMarket(market_process, product, prod_country, code, database) ==
    With(CopyProcess(market_process, prod_country, code, database, FALSE), LAMBDA copy :
        [copy EXCEPT
            !["name"] = "technology mix for " \o product,
            !["exchanges"][FirstIndex(copy["exchanges"], IsProduction)]["name"] =
                "technology mix for " \o product])

(* lines 617-655 for one geography: the regions copy_market succeeds with, *)
(* in order; an empty result stands for the NoResults that escapes         *)
MarketRegions(product, country, possibilities, eiw) ==
    LET exists(region) ==
            market_candidates_lookup(eiw, product, region,
                                     name_ei_with_regionalized_biosphere) # <<>>
        last == possibilities[Len(possibilities)].v[1]
    IN With(IF country # "RoW" /\ country \in DOMAIN country_to_ecoinvent_regions
            THEN SelectSeq(country_to_ecoinvent_regions[country], exists)
            ELSE <<>>, LAMBDA of_country :
           IF exists(country) THEN <<country>>
           ELSE IF of_country # <<>> THEN of_country
           ELSE IF exists("RoW") THEN <<"RoW">>
           ELSE IF exists("GLO") THEN <<"GLO">>
           ELSE IF exists(last) THEN <<last>>
           ELSE <<>>)

RECURSIVE TechnologyMixes(_, _, _, _, _, _)
TechnologyMixes(fo, countries, product, possibilities, database, eiw) ==
    IF countries = <<>> \/ fo.raised # "" THEN fo
    ELSE With(Head(countries), LAMBDA country :
         With(MarketRegions(product, country, possibilities, eiw), LAMBDA regions :
             IF country # "RoW" /\ country \notin DOMAIN country_to_ecoinvent_regions
                /\ regions # <<country>>
             THEN [fo EXCEPT !.raised = "KeyError"]
             ELSE IF regions = <<>> THEN [fo EXCEPT !.raised = "NoResults"]
             ELSE TechnologyMixes(
                     [fo EXCEPT
                         !.uuid = @ + Len(regions),
                         !.objs = Append(@,
                             CopyMarket(market_candidates_lookup(eiw, product,
                                            regions[Len(regions)],
                                            name_ei_with_regionalized_biosphere)[1],
                                        product, country, fo.uuid + Len(regions) - 1,
                                        database)),
                         !.riw = Append(@, Len(fo.objs) + 1)],
                     Tail(countries), product, possibilities, database, eiw)))

(* lines 405-655 for one product that is not traded *)
FirstOrderNonTraded(fo, product, database, eiw) ==
    LET Turns(possibilities) ==
            Concat([i \in DOMAIN possibilities |->
                [j \in DOMAIN geographies_needed |->
                    [technology |-> possibilities[i].k,
                     possible |-> possibilities[i].v,
                     country |-> geographies_needed[j]]]])
    IN With(Possibilities(non_market_by_product(eiw, product)), LAMBDA all :
       With(SelectSeq(all, LAMBDA item : <<product, item.k>> \notin no_inputs_processes),
            LAMBDA possibilities :
       With(NonTradedLoop(fo, Turns(possibilities), product, database, eiw),
            LAMBDA looped :
           IF possibilities = <<>> THEN looped
           ELSE TechnologyMixes(looped, geographies_needed, product, all, database,
                                eiw))))

----------------------------------------------------------------------------
(* create_consumption_markets (consumption_markets.py)                     *)

(* the distinct inputs that occur more than once, in the order of their    *)
(* first occurrence (collections.Counter)                                  *)
Duplicates(keys) ==
    SelectSeq([i \in DOMAIN keys |-> i],
              LAMBDA i : /\ \A j \in 1..(i - 1) : keys[j] # keys[i]
                         /\ \E j \in (i + 1)..Len(keys) : keys[j] = keys[i])

(* lines 206-225 and second_order.py 307-346: the exchanges of each        *)
(* duplicated input are replaced by one exchange put at the end            *)
MergeDuplicates(excs, duplicates, Merged(_, _)) ==
    SelectSeq(excs, LAMBDA e : e["input"] \notin Range(duplicates))
    \o [i \in DOMAIN duplicates |->
           Merged(duplicates[i], SelectSeq(excs, LAMBDA e : e["input"] = duplicates[i]))]

(* lines 137-143: the code of the first process of regioinvent_in_dict     *)
(* [(product, location)] named after the technology, 0 when there is none *)
RegioCode(objs, riw, product, location, technology) ==
    LET hits == {i \in DOMAIN riw : /\ objs[riw[i]]["reference product"] = product
                                    /\ objs[riw[i]]["location"] = location
                                    /\ objs[riw[i]]["name"] = technology}
    IN IF hits = {} THEN 0
       ELSE objs[riw[CHOOSE i \in hits : \A j \in hits : i <= j]]["code"]

(* lines 105-227: the consumption market of one consumer; partners are the *)
(* rows of the consumer, riw0 the collection when the stage began          *)
ConsumptionMarket(fo, riw0, tables, product, consumer, partners, name) ==
    LET created == tables.created_geographies[product]
        distribution == tables.distribution_technologies[product]
        modes == tables.transportation_modes[product]
        origin(partner) == IF partner \in Range(created) THEN partner ELSE "RoW"
        shares == Concat([i \in DOMAIN partners |->
                     [j \in DOMAIN distribution |->
                         [amount |-> RMul(partners[i].qty, distribution[j].v),
                          type |-> "technosphere",
                          input |-> <<name, RegioCode(fo.objs, riw0, product,
                                                      origin(partners[i].exporter),
                                                      distribution[j].k)>>,
                          name |-> product]]])
        transport == [i \in DOMAIN modes |->
                        [amount |-> modes[i].v, type |-> "technosphere",
                         input |-> <<name_ei_with_regionalized_biosphere, modes[i].k>>]]
        production == [amount |-> ROne, type |-> "production",
                       input |-> <<name, fo.uuid>>]
        excs == <<production>> \o shares \o transport
        inputs == [i \in DOMAIN excs |-> excs[i]["input"]]
        duplicates == Duplicates(inputs)
        Merged(duplicate, same) ==
            [amount |-> AmountSum(same), name |-> product, type |-> "technosphere",
             input |-> duplicate]
        new_import_data ==
            [name |-> "consumption market for " \o product, location |-> consumer,
             type |-> "process", unit |-> tables.unit[product], code |-> fo.uuid,
             database |-> name,
             exchanges |-> MergeDuplicates(excs, [i \in DOMAIN duplicates |->
                                                     inputs[duplicates[i]]], Merged)]
            @@ ("reference product" :> product)
    IN IF \E i \in DOMAIN shares : shares[i]["input"][2] = 0
       THEN [fo EXCEPT !.raised = "KeyError"]
       ELSE [fo EXCEPT !.uuid = @ + 1,
                       !.objs = Append(@, new_import_data),
                       !.riw = Append(@, Len(fo.objs) + 1)]

RECURSIVE ConsumptionMarkets(_, _, _, _, _, _, _)
ConsumptionMarkets(fo, riw0, tables, product, consumers, rows, name) ==
    IF consumers = <<>> \/ fo.raised # "" THEN fo
    ELSE ConsumptionMarkets(
            ConsumptionMarket(fo, riw0, tables, product, Head(consumers),
                              RowsOfImporter(rows, Head(consumers)), name),
            riw0, tables, product, Tail(consumers), rows, name)

(* lines 36-227 for one traded product.  m is cmd_consumption_data, order  *)
(* the index of consumers after sort_values, name the database name.       *)
CreateConsumptionMarkets(fo, tables, product, m, order, c, name) ==
    IF Limit(ImporterQty(m), order, c) = 0 THEN [fo EXCEPT !.raised = "IndexError"]
    ELSE With(ConsumerShares(m, order, c), LAMBDA shares :
        IF shares.raised THEN [fo EXCEPT !.raised = "KeyError"]
        ELSE IF product \notin DOMAIN tables.created_geographies
        THEN [fo EXCEPT !.raised = "TypeError"]
        ELSE ConsumptionMarkets(fo, fo.riw, tables, product,
                                SortedLabels({r.importer : r \in Range(shares.rows)}),
                                shares.rows, name))

----------------------------------------------------------------------------
(* second_order_regionalization (second_order.py).  The processes are      *)
(* changed in place: objs[id] for the ids of regioinvent_in_wurst.         *)

(* a loop that stops at the first exception: Step(x) = [raised, value];    *)
(* the items before the one that raised are changed, that one as far as    *)
(* it got, the items after it not at all                                   *)
MapUntilRaise(items, Step(_)) ==
    With([i \in DOMAIN items |-> Step(items[i])], LAMBDA steps :
        LET bad == {i \in DOMAIN items : steps[i].raised # ""}
            f == IF bad = {} THEN Len(items) + 1
                 ELSE CHOOSE i \in bad : \A j \in bad : i <= j
        IN [raised |-> IF bad = {} THEN "" ELSE steps[f].raised,
            values |-> [i \in DOMAIN items |-> IF i <= f THEN steps[i].value
                                               ELSE items[i]]])

(* the same loop over the processes of riw *)
ChangeUntilRaise(objs, riw, Step(_)) ==
    With([i \in DOMAIN riw |-> Step(objs[riw[i]])], LAMBDA steps :
        LET bad == {i \in DOMAIN riw : steps[i].raised # ""}
            f == IF bad = {} THEN Len(riw) + 1
                 ELSE CHOOSE i \in bad : \A j \in bad : i <= j
            Last(id) == CHOOSE i \in DOMAIN riw :
                            riw[i] = id /\ \A j \in DOMAIN riw : riw[j] = id => j <= i
        IN [raised |-> IF bad = {} THEN "" ELSE steps[f].raised,
            objs |-> [id \in DOMAIN objs |->
                        IF \E i \in 1..f : i \in DOMAIN riw /\ riw[i] = id
                        THEN steps[Last(id)].value ELSE objs[id]]])

(* lines 14-18: (name, location) -> the last consumption market with them *)
consumption_markets_data(objs, riw) ==
    LET ids == SelectSeq(riw, LAMBDA id : Contains(objs[id]["name"], "consumption market"))
        key(i) == <<objs[ids[i]]["name"], objs[ids[i]]["location"]>>
    IN [k \in {key(i) : i \in DOMAIN ids} |->
          objs[ids[CHOOSE i \in DOMAIN ids :
                      key(i) = k /\ \A j \in DOMAIN ids : key(j) = k => j <= i]]]

(* lines 35-39 and 177-181: (name, location) -> code of the technology mix *)
techno_mixes(objs, riw) ==
    LET ids == SelectSeq(riw, LAMBDA id : Contains(objs[id]["name"], "technology mix"))
        key(i) == <<objs[ids[i]]["name"], objs[ids[i]]["location"]>>
    IN [k \in {key(i) : i \in DOMAIN ids} |->
          objs[ids[CHOOSE i \in DOMAIN ids :
                      key(i) = k /\ \A j \in DOMAIN ids : key(j) = k => j <= i]]["code"]]

regionalized_products(objs, riw) == {objs[riw[i]]["reference product"] : i \in DOMAIN riw}

Traded(product) == product \in DOMAIN eco_to_hs_class

IsMarketProcess(ds) ==
    Contains(ds["name"], "consumption market") \/ Contains(ds["name"], "production market")
IsTechnologyMix(ds) == Contains(ds["name"], "technology mix")

(* lines 56-89 and 236-269: an exchange is sent to the consumption market  *)
(* of its product at the location of the process, else at RoW              *)
ToConsumptionMarketMutAlwaysRoW(exc, location, markets) ==
    LET name == "consumption market for " \o exc["product"]
        renamed == Put(Put(exc, "name", name), "location", location)
        key == <<name, "RoW">>
    IN IF key \notin DOMAIN markets THEN [raised |-> "KeyError", value |-> renamed]
       ELSE [raised |-> "",
             value |-> Put(Put(Put(renamed, "database", markets[key]["database"]),
                               "code", markets[key]["code"]),
                           "input", <<markets[key]["database"], markets[key]["code"]>>)]

ToConsumptionMarket(exc, location, markets) ==
    LET name == "consumption market for " \o exc["product"]
        renamed == Put(Put(exc, "name", name), "location", location)
        key == IF <<name, location>> \in DOMAIN markets THEN <<name, location>>
               ELSE <<name, "RoW">>
    IN IF key \notin DOMAIN markets THEN [raised |-> "KeyError", value |-> renamed]
       ELSE [raised |-> "",
             value |-> Put(Put(Put(renamed, "database", markets[key]["database"]),
                               "code", markets[key]["code"]),
                           "input", <<markets[key]["database"], markets[key]["code"]>>)]

(* lines 94-104: an exchange is sent to the technology mix of its product  *)
ToTechnologyMix(exc, location, mixes, database) ==
    LET name == "technology mix for " \o exc["product"]
        renamed == Put(Put(exc, "name", name), "location", location)
    IN IF <<name, location>> \notin DOMAIN mixes
       THEN [raised |-> "KeyError", value |-> renamed]
       ELSE [raised |-> "",
             value |-> Put(Put(Put(renamed, "code", mixes[<<name, location>>]),
                               "database", database),
                           "input", <<database, mixes[<<name, location>>]>>)]

(* lines 275-287: the same inside try / except KeyError *)
TryTechnologyMix(exc, location, mixes, database) ==
    IF ToTechnologyMix(exc, location, mixes, database).raised # ""
    THEN [raised |-> "", value |-> exc]
    ELSE ToTechnologyMix(exc, location, mixes, database)

(* lines 51-104 and 231-287: the exchanges of one process are linked *)
LinkExchanges(process, markets, mixes, products, database, strict) ==
    LET Step(exc) ==
            IF ~({"product", "type"} \subseteq DOMAIN exc)
            THEN [raised |-> "KeyError", value |-> exc]
            ELSE IF Traded(exc["product"]) /\ exc["type"] = "technosphere"
            THEN ToConsumptionMarket(exc, process["location"], markets)
            ELSE IF exc["product"] \in products /\ exc["type"] = "technosphere"
            THEN IF strict
                 THEN ToTechnologyMix(exc, process["location"], mixes, database)
                 ELSE TryTechnologyMix(exc, process["location"], mixes, database)
            ELSE [raised |-> "", value |-> exc]
    IN With(MapUntilRaise(process["exchanges"], Step), LAMBDA linked :
           [raised |-> linked.raised, value |-> Put(process, "exchanges", linked.values)])

(* lines 105-126: the exchanges of a technology mix are sent to the        *)
(* production processes of its location                                    *)
LinkTechnologyMix(process, objs, riw, database) ==
    LET others(exc) ==
            SelectSeq(riw, LAMBDA id :
                /\ ~IsMarketProcess(objs[id])
                /\ ~Traded(objs[id]["reference product"])
                /\ objs[id]["reference product"] = exc["product"]
                /\ objs[id]["location"] = process["location"]
                /\ objs[id]["name"] = exc["name"])
        Step(exc) ==
            IF "product" \notin DOMAIN exc
               \/ (\E i \in DOMAIN riw :
                      /\ ~IsMarketProcess(objs[riw[i]])
                      /\ ~Traded(objs[riw[i]]["reference product"])
                      /\ objs[riw[i]]["reference product"] = exc["product"]
                      /\ objs[riw[i]]["location"] = process["location"]
                      /\ "name" \notin DOMAIN exc)
            THEN [raised |-> "KeyError", value |-> exc]
            ELSE IF others(exc) = <<>> THEN [raised |-> "", value |-> exc]
            ELSE LET code == objs[others(exc)[Len(others(exc))]]["code"]
                 IN [raised |-> "",
                     value |-> Put(Put(Put(Put(exc, "code", code), "database", database),
                                       "location", process["location"]),
                                   "input", <<database, code>>)]
        linked == MapUntilRaise(process["exchanges"], Step)
    IN [raised |-> linked.raised, value |-> Put(process, "exchanges", linked.values)]

(* lines 42-126: the first loop over the created processes *)
FirstLink(process, objs, riw, markets, mixes, products, database) ==
    IF ~IsMarketProcess(process) /\ ~IsTechnologyMix(process)
       /\ Traded(process["reference product"])
    THEN LinkExchanges(process, markets, mixes, products, database, TRUE)
    ELSE IF IsTechnologyMix(process)
    THEN LinkTechnologyMix(process, objs, riw, database)
    ELSE [raised |-> "", value |-> process]

(* lines 129-160: the technology mixes named by an exchange of a process   *)
(* of a traded product, and every technology mix of RoW                    *)
used_techno_mixes(objs, riw) ==
    UNION {{<<e["name"], e["product"], e["location"]>> :
                e \in {x \in Range(objs[riw[i]]["exchanges"]) :
                          Contains(x["name"], "technology mix")}} :
           i \in {j \in DOMAIN riw : /\ ~IsMarketProcess(objs[riw[j]])
                                     /\ Traded(objs[riw[j]]["reference product"])}}
    \cup {<<objs[riw[i]]["name"], objs[riw[i]]["reference product"], "RoW">> :
           i \in {j \in DOMAIN riw : /\ IsTechnologyMix(objs[riw[j]])
                                     /\ objs[riw[j]]["location"] = "RoW"}}

(* line 138 reads exc["name"], lines 140-142 product and location *)
UsedTechnoMixesRaise(objs, riw) ==
    \E i \in DOMAIN riw :
        /\ ~IsMarketProcess(objs[riw[i]])
        /\ Traded(objs[riw[i]]["reference product"])
        /\ \E e \in Range(objs[riw[i]]["exchanges"]) :
              \/ "name" \notin DOMAIN e
              \/ /\ Contains(e["name"], "technology mix")
                 /\ ~({"product", "location"} \subseteq DOMAIN e)

(* lines 162-174 *)
reduced_regioinventMutKeepAll(objs, riw) == riw

reduced_regioinvent(objs, riw) ==
    SelectSeq(riw, LAMBDA id :
        IsTechnologyMix(objs[id])
            => <<objs[id]["name"], objs[id]["reference product"], objs[id]["location"]>>
                   \in used_techno_mixes(objs, riw))

(* lines 183-200: the production processes named by a technology mix;     *)
(* regionalized_products is still the set of line 31                       *)
used_prod_processes(objs, riw, products) ==
    UNION {{<<e["name"], e["product"], e["location"]>> :
                e \in {x \in Range(objs[riw[i]]["exchanges"]) :
                          /\ x["type"] = "technosphere"
                          /\ x["product"] \in products
                          /\ ~Traded(x["product"])
                          /\ ~Contains(x["name"], "technology mix")}} :
           i \in {j \in DOMAIN riw : IsTechnologyMix(objs[riw[j]])}}

UsedProdProcessesRaise(objs, riw) ==
    \E i \in DOMAIN riw :
        /\ IsTechnologyMix(objs[riw[i]])
        /\ \E e \in Range(objs[riw[i]]["exchanges"]) :
              /\ e["type"] = "technosphere"
              /\ ~({"product", "name", "location"} \subseteq DOMAIN e)

(* lines 202-219 *)
even_more_reduced_regioinvent(objs, riw, products) ==
    SelectSeq(riw, LAMBDA id :
        (/\ ~IsTechnologyMix(objs[id]) /\ ~IsMarketProcess(objs[id])
         /\ ~Traded(objs[id]["reference product"]))
            => <<objs[id]["name"], objs[id]["reference product"], objs[id]["location"]>>
                   \in used_prod_processes(objs, riw, products))

(* lines 222-287: the second loop, over the processes of the products that *)
(* are not traded                                                          *)
SecondLink(process, markets, mixes, products, database) ==
    IF ~IsMarketProcess(process) /\ ~IsTechnologyMix(process)
       /\ ~Traded(process["reference product"])
    THEN LinkExchanges(process, markets, mixes, products, database, FALSE)
    ELSE [raised |-> "", value |-> process]

(* lines 292-346: every exchange gets an input, then the exchanges of a    *)
(* duplicated input are merged                                             *)
AggregateDuplicatesMutNoMerge(process) ==
    [raised |-> "",
     value |-> Put(process, "exchanges",
                   [i \in DOMAIN process["exchanges"] |->
                      LET exc == process["exchanges"][i]
                      IN IF "input" \in DOMAIN exc
                            \/ ~({"database", "code"} \subseteq DOMAIN exc) THEN exc
                         ELSE Put(exc, "input", <<exc["database"], exc["code"]>>)])]

AggregateDuplicates(process) ==
    LET noinput == {i \in DOMAIN process["exchanges"] :
                       /\ "input" \notin DOMAIN process["exchanges"][i]
                       /\ ~({"database", "code"} \subseteq DOMAIN process["exchanges"][i])}
        f == IF noinput = {} THEN Len(process["exchanges"]) + 1
             ELSE CHOOSE i \in noinput : \A j \in noinput : i <= j
        withinput == [i \in DOMAIN process["exchanges"] |->
                        LET exc == process["exchanges"][i]
                        IN IF i >= f \/ "input" \in DOMAIN exc THEN exc
                           ELSE Put(exc, "input", <<exc["database"], exc["code"]>>)]
        inputs == [i \in DOMAIN withinput |-> withinput[i]["input"]]
        duplicates == [i \in DOMAIN Duplicates(inputs) |-> inputs[Duplicates(inputs)[i]]]
        Group(duplicate) == SelectSeq(withinput, LAMBDA e : e["input"] = duplicate)
        bad == {i \in DOMAIN duplicates : \E e \in Range(Group(duplicates[i])) :
                   ~({"name", "product", "database", "location"} \subseteq DOMAIN e)}
        g == IF bad = {} THEN Len(duplicates) + 1
             ELSE CHOOSE i \in bad : \A j \in bad : i <= j
        Merged(duplicate, group) ==
            [amount |-> AmountSum(group), type |-> "technosphere", input |-> duplicate,
             name |-> group[1]["name"], database |-> group[1]["database"],
             product |-> group[1]["product"], location |-> group[1]["location"]]
    IN IF noinput # {}
       THEN [raised |-> "KeyError", value |-> Put(process, "exchanges", withinput)]
       ELSE [raised |-> IF bad = {} THEN "" ELSE "KeyError",
             value |-> Put(process, "exchanges",
                           MergeDuplicates(withinput, SubSeq(duplicates, 1, g - 1), Merged))]

(* second_order_regionalization, lines 4-346 *)
SecondOrder(fo, database) ==
    With(consumption_markets_data(fo.objs, fo.riw), LAMBDA markets :
    With(techno_mixes(fo.objs, fo.riw), LAMBDA mixes :
    With(regionalized_products(fo.objs, fo.riw), LAMBDA products :
    With(ChangeUntilRaise(fo.objs, fo.riw, LAMBDA process :
             FirstLink(process, fo.objs, fo.riw, markets, mixes, products, database)),
         LAMBDA first :
        IF first.raised # ""
        THEN [fo EXCEPT !.raised = first.raised, !.objs = first.objs]
        ELSE IF UsedTechnoMixesRaise(first.objs, fo.riw)
        THEN [fo EXCEPT !.raised = "KeyError", !.objs = first.objs]
        ELSE With(reduced_regioinvent(first.objs, fo.riw), LAMBDA reduced :
            IF UsedProdProcessesRaise(first.objs, reduced)
            THEN [fo EXCEPT !.raised = "KeyError", !.objs = first.objs, !.riw = reduced]
            ELSE With(even_more_reduced_regioinvent(first.objs, reduced, products),
                      LAMBDA even_more_reduced :
                 With(techno_mixes(first.objs, reduced), LAMBDA remaining :
                 With(ChangeUntilRaise(first.objs, even_more_reduced, LAMBDA process :
                          SecondLink(process, markets, remaining, products, database)),
                      LAMBDA second :
                     IF second.raised # ""
                     THEN [fo EXCEPT !.raised = second.raised, !.objs = second.objs,
                                     !.riw = even_more_reduced]
                     ELSE With(ChangeUntilRaise(second.objs, even_more_reduced,
                                                AggregateDuplicates), LAMBDA third :
                              [fo EXCEPT !.raised = third.raised, !.objs = third.objs,
                                         !.riw = even_more_reduced])))))))))

----------------------------------------------------------------------------
(* spatialize_elem_flows (elem_spatialization.py)                          *)

(* lines 31-57: a spatialized flow is replaced by the flow of the location *)
(* of the process                                                          *)
SpatializeExchange(exc, location) ==
    IF exc["type"] # "biosphere" THEN [raised |-> "", value |-> exc]
    ELSE IF ~({"name", "categories"} \subseteq DOMAIN exc)
    THEN [raised |-> "KeyError", value |-> exc]
    ELSE LET base_name_flow == DropLastPart(exc["name"])
             key == <<base_name_flow \o ", " \o location, exc["categories"]>>
         IN IF base_name_flow \notin DOMAIN spatialized_elem_flows
               \/ exc["categories"][1] \notin spatialized_elem_flows[base_name_flow]
            THEN [raised |-> "", value |-> exc]
            ELSE IF key \notin DOMAIN regionalized_flows
            THEN [raised |-> "KeyError", value |-> exc]
            ELSE [raised |-> "",
                  value |-> Put(Put(Put(Put(exc, "code", regionalized_flows[key]),
                                        "database", name_spatialized_biosphere),
                                    "name", key[1]),
                                "input", <<name_spatialized_biosphere, regionalized_flows[key]>>)]

SpatializeProcess(process) ==
    With(MapUntilRaise(process["exchanges"],
                       LAMBDA exc : SpatializeExchange(exc, process["location"])),
         LAMBDA done :
        [raised |-> done.raised, value |-> Put(process, "exchanges", done.values)])

(* spatialize_elem_flows, lines 6-57 *)
SpatializeElemFlows(fo) ==
    With(ChangeUntilRaise(fo.objs, fo.riw, SpatializeProcess), LAMBDA done :
        [fo EXCEPT !.raised = done.raised, !.objs = done.objs])

----------------------------------------------------------------------------
(* connect_ecoinvent_to_regioinvent (io_ops.py 126-291).  The processes of *)
(* ei_wurst are changed in place.                                          *)

(* lines 152-162: the country of a country or sub-country location, ""     *)
(* for None                                                                *)
ConnectLocation(process) ==
    IF process["location"] \in DOMAIN country_to_ecoinvent_regions
    THEN process["location"]
    ELSE IF SplitFirst(process["location"], "-") \in DOMAIN country_to_ecoinvent_regions
    THEN SplitFirst(process["location"], "-")
    ELSE ""

(* lines 166-206 *)
ConnectExchange(exc, location, markets, mixes, products, database) ==
    IF Get(exc, "type", "None") # "technosphere" THEN [raised |-> "", value |-> exc]
    ELSE IF "product" \notin DOMAIN exc THEN [raised |-> "KeyError", value |-> exc]
    ELSE IF Traded(exc["product"]) THEN ToConsumptionMarket(exc, location, markets)
    ELSE IF exc["product"] \in products
    THEN LET name == "technology mix for " \o exc["product"]
             tech_key == IF <<name, location>> \in DOMAIN mixes THEN <<name, location>>
                         ELSE <<name, "RoW">>
         IN IF tech_key \notin DOMAIN mixes THEN [raised |-> "", value |-> exc]
            ELSE [raised |-> "",
                  value |-> Put(Put(Put(Put(Put(exc, "code", mixes[tech_key]),
                                            "database", database),
                                        "name", tech_key[1]),
                                    "location", tech_key[2]),
                                "input", <<database, mixes[tech_key]>>)]
    ELSE [raised |-> "", value |-> exc]

(* lines 151-206 *)
ConnectProcess(process, markets, mixes, products, database) ==
    With(ConnectLocation(process), LAMBDA location :
        IF location \in {"", "CH"} THEN [raised |-> "", value |-> process]
        ELSE With(MapUntilRaise(process["exchanges"], LAMBDA exc :
                      ConnectExchange(exc, location, markets, mixes, products, database)),
                  LAMBDA done :
                 [raised |-> done.raised,
                  value |-> Put(process, "exchanges", done.values)]))

IsTechnosphere(exc) == Get(exc, "type", "None") = "technosphere"

(* lines 238-262: the technosphere exchanges of each duplicated input are  *)
(* replaced, one duplicate after the other, by one exchange at the end     *)
RECURSIVE MergeByInput(_, _)
MergeByInput(excs, duplicates) ==
    IF duplicates = <<>> THEN excs
    ELSE LET duplicate == Head(duplicates)
             Same(e) == IsTechnosphere(e) /\ e["input"] = duplicate[1]
             Other(e) == ~Same(e)
         IN MergeByInput(
                SelectSeq(excs, Other)
                \o <<[amount |-> AmountSum(SelectSeq(excs, Same)), type |-> "technosphere",
                      input |-> duplicate[1], name |-> duplicate[2],
                      product |-> duplicate[3], location |-> duplicate[4],
                      database |-> duplicate[5], code |-> duplicate[6]]>>,
                Tail(duplicates))

(* lines 209-262 *)
ConnectAggregateMutNoMerge(process) == [raised |-> "", value |-> process]

ConnectAggregate(process) ==
    LET withinput == [i \in DOMAIN process["exchanges"] |->
                        LET exc == process["exchanges"][i]
                        IN IF /\ IsTechnosphere(exc) /\ "input" \notin DOMAIN exc
                              /\ {"database", "code"} \subseteq DOMAIN exc
                           THEN Put(exc, "input", <<exc["database"], exc["code"]>>)
                           ELSE exc]
        technosphere == SelectSeq(withinput, IsTechnosphere)
        incomplete == \E e \in Range(technosphere) :
                         ~({"input", "name", "product", "location", "database", "code"}
                              \subseteq DOMAIN e)
        tuples == [i \in DOMAIN technosphere |->
                     <<technosphere[i]["input"], technosphere[i]["name"],
                       technosphere[i]["product"], technosphere[i]["location"],
                       technosphere[i]["database"], technosphere[i]["code"]>>]
        duplicates == [i \in DOMAIN Duplicates(tuples) |-> tuples[Duplicates(tuples)[i]]]
    IN IF incomplete
       THEN [raised |-> "KeyError", value |-> Put(process, "exchanges", withinput)]
       ELSE [raised |-> "",
             value |-> Put(process, "exchanges", MergeByInput(withinput, duplicates))]

(* lines 265-273: (reference product, name, location) -> code, last wins *)
regio_dict(objs, riw) ==
    LET key(i) == <<objs[riw[i]]["reference product"], objs[riw[i]]["name"],
                    objs[riw[i]]["location"]>>
    IN [k \in {key(i) : i \in DOMAIN riw} |->
          objs[riw[CHOOSE i \in DOMAIN riw :
                      key(i) = k /\ \A j \in DOMAIN riw : key(j) = k => j <= i]]["code"]]

(* lines 275-287 *)
ConnectProduction(process, codes, database) ==
    LET Step(exc) ==
            IF ~IsTechnosphere(exc) THEN [raised |-> "", value |-> exc]
            ELSE IF "product" \notin DOMAIN exc THEN [raised |-> "KeyError", value |-> exc]
            ELSE IF ~Traded(exc["product"]) THEN [raised |-> "", value |-> exc]
            ELSE IF "location" \notin DOMAIN exc THEN [raised |-> "KeyError", value |-> exc]
            ELSE IF exc["location"] \in {"RoW", "CH"} THEN [raised |-> "", value |-> exc]
            ELSE IF "name" \notin DOMAIN exc THEN [raised |-> "KeyError", value |-> exc]
            ELSE IF <<exc["product"], exc["name"], exc["location"]>> \notin DOMAIN codes
            THEN [raised |-> "", value |-> exc]
            ELSE With(codes[<<exc["product"], exc["name"], exc["location"]>>], LAMBDA code :
                     [raised |-> "",
                      value |-> Put(Put(Put(exc, "database", database), "code", code),
                                    "input", <<database, code>>)])
    IN With(MapUntilRaise(process["exchanges"], Step), LAMBDA done :
           [raised |-> done.raised, value |-> Put(process, "exchanges", done.values)])

(* a reference to a process of ei_wurst or to a created process *)
EiRef(i) == <<"ei", i>>
RegioRef(id) == <<"regio", id>>

(* connect_ecoinvent_to_regioinvent, lines 126-291: [raised, eiw, final] *)
Connect(eiw, objs, riw, final, database) ==
    With(consumption_markets_data(objs, riw), LAMBDA markets :
    With(techno_mixes(objs, riw), LAMBDA mixes :
    With(regionalized_products(objs, riw), LAMBDA products :
    With(MapUntilRaise(eiw, LAMBDA process :
             ConnectProcess(process, markets, mixes, products, database)), LAMBDA first :
        IF first.raised # ""
        THEN [raised |-> first.raised, eiw |-> first.values, final |-> final]
        ELSE With(MapUntilRaise(first.values, ConnectAggregate), LAMBDA second :
            IF second.raised # ""
            THEN [raised |-> second.raised, eiw |-> second.values, final |-> final]
            ELSE With(regio_dict(objs, riw), LAMBDA codes :
                 With(MapUntilRaise(second.values, LAMBDA process :
                          ConnectProduction(process, codes, database)), LAMBDA third :
                     IF third.raised # ""
                     THEN [raised |-> third.raised, eiw |-> third.values, final |-> final]
                     ELSE [raised |-> "", eiw |-> third.values,
                           final |-> [i \in DOMAIN eiw |-> EiRef(i)]
                                     \o [i \in DOMAIN riw |-> RegioRef(riw[i])]])))))))

----------------------------------------------------------------------------
(* write_database (io_ops.py 48-123).  The datasets of the final database  *)
(* in memory are the processes of ei_wurst and the created processes       *)
(* themselves: they are renumbered in place.                               *)

Deref(ref, eiw, objs) == IF ref[1] = "ei" THEN eiw[ref[2]] ELSE objs[ref[2]]

(* lines 63-65: a dict keyed by (database, code): a key keeps the place of *)
(* its first dataset and the value of its last one                         *)
final_data(final, eiw, objs) ==
    LET key(i) == <<Deref(final[i], eiw, objs)["database"], Deref(final[i], eiw, objs)["code"]>>
        firsts == SelectSeq([i \in DOMAIN final |-> i],
                            LAMBDA i : \A j \in 1..(i - 1) : key(j) # key(i))
    IN [n \in DOMAIN firsts |->
          final[CHOOSE i \in DOMAIN final :
                   key(i) = key(firsts[n]) /\ \A j \in DOMAIN final : key(j) = key(firsts[n]) => j <= i]]

(* lines 68-78: old key -> (target, new code), the n-th dataset gets the   *)
(* n-th uuid drawn                                                         *)
old_to_new(data, eiw, objs, uuid, target) ==
    [k \in {<<Deref(data[n], eiw, objs)["database"], Deref(data[n], eiw, objs)["code"]>> :
               n \in DOMAIN data} |->
        <<target, uuid + (CHOOSE n \in DOMAIN data :
                             k = <<Deref(data[n], eiw, objs)["database"],
                                   Deref(data[n], eiw, objs)["code"]>>) - 1>>]

(* lines 81-85: old code -> (target, new code) for the codes of one key *)
code_to_new(renamed) ==
    [c \in {k[2] : k \in {x \in DOMAIN renamed :
                             \A y \in DOMAIN renamed : y[2] = x[2] => y = x}} |->
        renamed[CHOOSE k \in DOMAIN renamed : k[2] = c]]

(* lines 90-113 *)
NormalizeExchange(exc, code, target, renamed, bycode) ==
    IF exc["type"] = "production"
    THEN Put(Put(Put(Put(exc, "database", target), "code", code),
                 "input", <<target, code>>),
             "output", <<target, code>>)
    ELSE IF exc["type"] = "technosphere"
    THEN LET moved == Put(exc, "database", target)
             found == IF "input" \in DOMAIN exc /\ exc["input"] \in DOMAIN renamed
                      THEN renamed[exc["input"]]
                      ELSE IF "code" \in DOMAIN exc /\ <<target, exc["code"]>> \in DOMAIN renamed
                      THEN renamed[<<target, exc["code"]>>]
                      ELSE IF "code" \in DOMAIN exc /\ exc["code"] \in DOMAIN bycode
                      THEN bycode[exc["code"]]
                      ELSE <<>>
         IN IF found # <<>> THEN Put(Put(moved, "code", found[2]), "input", found)
            ELSE IF "code" \in DOMAIN exc THEN Put(moved, "input", <<target, exc["code"]>>)
            ELSE moved
    ELSE IF "input" \notin DOMAIN exc /\ {"database", "code"} \subseteq DOMAIN exc
    THEN Put(exc, "input", <<exc["database"], exc["code"]>>)
    ELSE exc

(* lines 68-116: a dataset after the write *)
NormalizeDataset(ds, code, target, renamed, bycode) ==
    Pop(Pop([ds EXCEPT !["database"] = target,
                       !["code"] = code,
                       !["exchanges"] = [i \in DOMAIN ds["exchanges"] |->
                            NormalizeExchange(ds["exchanges"][i], code, target,
                                              renamed, bycode)]],
            "categories"),
        "parameters")

(* write_database, lines 48-123: [raised, eiw, objs, uuid, target, data];  *)
(* given is the target_db_name argument, "" for None                       *)
WriteDatabase(eiw, objs, final, uuid, current, given) ==
    IF final = <<>>
    THEN [raised |-> "ValueError", eiw |-> eiw, objs |-> objs, uuid |-> uuid,
          target |-> current, data |-> <<>>]
    ELSE With(IF given # "" THEN given ELSE DefaultTargetDbName, LAMBDA target :
         With(final_data(final, eiw, objs), LAMBDA data :
         With(old_to_new(data, eiw, objs, uuid, target), LAMBDA renamed :
         With(code_to_new(renamed), LAMBDA bycode :
         With([n \in DOMAIN data |->
                  NormalizeDataset(Deref(data[n], eiw, objs), uuid + n - 1, target,
                                   renamed, bycode)], LAMBDA new :
             LET Place(ref) == CHOOSE n \in DOMAIN data : data[n] = ref
             IN [raised |-> "",
                 eiw |-> [i \in DOMAIN eiw |->
                            IF EiRef(i) \in Range(data) THEN new[Place(EiRef(i))]
                            ELSE eiw[i]],
                 objs |-> [id \in DOMAIN objs |->
                             IF RegioRef(id) \in Range(data) THEN new[Place(RegioRef(id))]
                             ELSE objs[id]],
                 uuid |-> uuid + Len(data),
                 target |-> target,
                 data |-> new])))))

----------------------------------------------------------------------------
(* The pipeline: regionalize_ecoinvent_with_trade (pipeline.py) one action *)
(* per stage, and the direct calls of connect_ecoinvent_to_regioinvent and *)
(* write_database between two runs.                                        *)

MaxCalls == 3    \* calls of regionalize_ecoinvent_with_trade, connect and write_database

(* the trade databases a run can be given: the [Domestic production data], *)
(* [Export data] and [Import data] of steel, without ties                  *)
TradeDatabases ==
    <<[production |-> ("DE" :> 5) @@ ("CH" :> 3) @@ ("CA" :> 2),
       consumption |-> (<<"DE", "DE">> :> 2) @@ (<<"DE", "JP">> :> 1)
                       @@ (<<"CA", "US">> :> 1) @@ (<<"CA", "DE">> :> 1)
                       @@ (<<"RoW", "JP">> :> 1)],
      [production |-> ("CA" :> 4) @@ ("DE" :> 1),
       consumption |-> (<<"CA", "CA">> :> 3) @@ (<<"DE", "CA">> :> 1)],
      [production |-> ("JP" :> 6) @@ ("DE" :> 4),
       consumption |-> (<<"DE", "JP">> :> 2) @@ (<<"DE", "DE">> :> 1)
                       @@ (<<"CA", "DE">> :> 1) @@ (<<"RoW", "JP">> :> 1)]>>

(* the arguments of the calls of a session: the trade database, the name  *)
(* of the regionalized database, a cutoff in range and one out of range   *)
(* (in thousandths), and target_db_name=None                               *)
TradeArguments == {1}
CutoffArguments == {700, 991}
NameArguments == {"Regioinvent"}
TargetArguments == {""}

(* the arguments of a first call *)
AnyTrade == DOMAIN TradeDatabases
AnyCutoff == {-1000, -1, 0, 1, 500, 700, 989, 990, 991, 1000, 1001}
AnyName == {"Regioinvent", DefaultTargetDbName, "Regioinvent 1.0", "new", "regio"}

(* a database left by an earlier session under the name "Regioinvent" *)
EarlierRegioinvent ==
    <<[name |-> "consumption market for " \o Steel, location |-> "RoW",
       database |-> "Regioinvent", code |-> 0, exchanges |-> <<>>]>>

Stages ==
    <<"format_trade_data", "first_order_regionalization", "create_consumption_markets",
      "second_order_regionalization", "spatialize_elem_flows",
      "write_regioinvent_to_database", "connect_ecoinvent_to_regioinvent">>

(* the stage after a stage, "idle" after the last one (pipeline.py 64-80) *)
StageAfter(stage) ==
    LET i == CHOOSE k \in DOMAIN Stages : Stages[k] = stage
    IN IF i = Len(Stages) THEN "idle" ELSE Stages[i + 1]

(* pipeline.py 31 *)
CutoffMutGeq(c) == c >= CutoffMax \/ c < 0
CutoffOutOfRange(c) == c > CutoffMax \/ c < 0

(* Regioinvent.__init__ (main.py 141-155) in a project where               *)
(* spatialize_my_ecoinvent has been run                                    *)
Init ==
    /\ mode = "pipeline"
    /\ cutoff = 0
    /\ uuid_next = FirstUuid
    /\ SharesIdle
    /\ SubstIdle
    /\ run_pc = "idle" /\ run_raised = "" /\ last_call = "" /\ trade_conn = 0
    /\ regioinvent_database_name = ""
    /\ target_db_name = DefaultTargetDbName
    /\ production_data = EmptyDict /\ consumption_data = EmptyDict
    /\ ei_wurst = <<>> /\ records = <<>> /\ regioinvent_in_wurst = <<>>
    /\ regio_tables = NoTables
    /\ final_database_in_memory = <<>>
    /\ databases = (name_ei_with_regionalized_biosphere :> Ecoinvent)
                   @@ ("Regioinvent" :> EarlierRegioinvent)
    /\ run_count = 0 /\ direct_calls = 0 /\ stage_log = <<>> /\ run_first = 0
    /\ assembled_in = -1 /\ write_log = <<>> /\ deleted = {}

quietVars == <<mode, shareVars, sub_pc, template, geo, regio_process, sub_last, sub_counted,
               sub_removed, sub_appended>>

(* the state of regio the stages of first_order.py and later read *)
Regio ==
    [raised |-> "", uuid |-> uuid_next, objs |-> records, riw |-> regioinvent_in_wurst,
     caches |-> [elec |-> electricity_region_cache, alu |-> aluminium_electricity_region_cache,
                 waste |-> waste_region_cache, heat |-> heat_mix_cache],
     market |-> NoProcess]

(* ... and the state they leave *)
Store(fo) ==
    /\ uuid_next' = fo.uuid
    /\ records' = fo.objs
    /\ regioinvent_in_wurst' = fo.riw
    /\ electricity_region_cache' = fo.caches.elec
    /\ aluminium_electricity_region_cache' = fo.caches.alu
    /\ waste_region_cache' = fo.caches.waste
    /\ heat_mix_cache' = fo.caches.heat

(* pipeline.py 75-80: the stage has been called and has returned or raised *)
Staged(stage, raised) ==
    /\ mode = "pipeline" /\ run_pc = stage
    /\ stage_log' = Append(stage_log, stage)
    /\ run_raised' = raised
    /\ run_pc' = IF raised = "" THEN StageAfter(stage) ELSE "idle"
    /\ UNCHANGED <<quietVars, cutoff, last_call, trade_conn, regioinvent_database_name,
                   run_count, direct_calls, run_first, deleted>>

(* pipeline.py 21-62: the call, up to the first stage *)
Regionalize(trade, name, c) ==
    LET kept == [n \in DOMAIN databases \ {name} |-> databases[n]]
        rejected == CutoffOutOfRange(c)
        missing == name_ei_with_regionalized_biosphere \notin DOMAIN kept
    IN /\ mode = "pipeline" /\ run_pc = "idle" /\ run_count + direct_calls < MaxCalls
       /\ trade_conn' = trade
       /\ regioinvent_database_name' = name
       /\ cutoff' = c
       /\ databases' = kept
       /\ deleted' = {name} \cap DOMAIN databases
       /\ run_raised' = IF rejected \/ missing THEN "KeyError" ELSE ""
       /\ run_pc' = IF rejected \/ missing THEN "idle" ELSE Stages[1]
       /\ ei_wurst' = IF rejected \/ missing \/ ei_wurst # <<>> THEN ei_wurst
                      ELSE kept[name_ei_with_regionalized_biosphere]
       /\ last_call' = "regionalize_ecoinvent_with_trade"
       /\ run_count' = run_count + 1
       /\ stage_log' = <<>>
       /\ write_log' = <<>>
       /\ run_first' = Len(records)
       /\ UNCHANGED <<quietVars, uuid_next, cacheVars, target_db_name, production_data,
                      consumption_data, records, regioinvent_in_wurst, regio_tables,
                      final_database_in_memory, direct_calls, assembled_in>>

RegionalizeEcoinventWithTrade ==
    \E trade \in TradeArguments, name \in NameArguments, c \in CutoffArguments :
        Regionalize(trade, name, c)

(* DataFrame.sort_values(ascending=False): the index by falling quantity *)
sort_values(q) == CHOOSE order \in SortedDescending(q) : TRUE

(* io_ops.py 8-45 *)
FormatTradeData ==
    /\ Staged("format_trade_data", "")
    /\ production_data' = [product \in DOMAIN eco_to_hs_class |->
                              TradeDatabases[trade_conn].production]
    /\ consumption_data' = [product \in DOMAIN eco_to_hs_class |->
                               TradeDatabases[trade_conn].consumption]
    /\ UNCHANGED <<uuid_next, cacheVars, target_db_name, ei_wurst, records,
                   regioinvent_in_wurst, regio_tables, final_database_in_memory, databases,
                   assembled_in, write_log>>

(* first_order.py 70-381: the loop over the traded products *)
RECURSIVE TradedProducts(_, _, _, _, _, _)
TradedProducts(res, products, production, c, database, eiw) ==
    IF products = <<>> \/ res.fo.raised # "" THEN res
    ELSE TradedProducts(
            FirstOrderTraded(res.fo, res.tables, Head(products), production[Head(products)],
                             sort_values(production[Head(products)]), c, database, eiw),
            Tail(products), production, c, database, eiw)

(* first_order.py 421-656: the loop over the relevant non-traded products *)
RECURSIVE NonTradedProducts(_, _, _, _)
NonTradedProducts(fo, products, database, eiw) ==
    IF products = <<>> \/ fo.raised # "" THEN fo
    ELSE NonTradedProducts(FirstOrderNonTraded(fo, Head(products), database, eiw),
                           Tail(products), database, eiw)

(* first_order.py *)
FirstOrderRegionalization ==
    LET traded == TradedProducts([fo |-> Regio, tables |-> regio_tables],
                                 SeqOfSet(DOMAIN eco_to_hs_class), production_data, cutoff,
                                 target_db_name, ei_wurst)
        done == NonTradedProducts(traded.fo, relevant_non_traded_products, target_db_name,
                                  ei_wurst)
    IN /\ Staged("first_order_regionalization", done.raised)
       /\ Store(done)
       /\ regio_tables' = traded.tables
       /\ UNCHANGED <<target_db_name, production_data, consumption_data, ei_wurst,
                      final_database_in_memory, databases, assembled_in, write_log>>

(* consumption_markets.py 46-228: the loop over the traded products *)
RECURSIVE ConsumptionProducts(_, _, _, _, _, _)
ConsumptionProducts(fo, tables, products, consumption, c, name) ==
    IF products = <<>> \/ fo.raised # "" THEN fo
    ELSE ConsumptionProducts(
            CreateConsumptionMarkets(fo, tables, Head(products), consumption[Head(products)],
                                     sort_values(ImporterQty(consumption[Head(products)])),
                                     c, name),
            tables, Tail(products), consumption, c, name)

(* consumption_markets.py *)
CreateConsumptionMarketsStage ==
    LET done == ConsumptionProducts(Regio, regio_tables, SeqOfSet(DOMAIN eco_to_hs_class),
                                    consumption_data, cutoff, regioinvent_database_name)
    IN /\ Staged("create_consumption_markets", done.raised)
       /\ Store(done)
       /\ UNCHANGED <<target_db_name, production_data, consumption_data, ei_wurst,
                      regio_tables, final_database_in_memory, databases, assembled_in,
                      write_log>>

(* second_order.py *)
SecondOrderRegionalization ==
    LET done == SecondOrder(Regio, target_db_name)
    IN /\ Staged("second_order_regionalization", done.raised)
       /\ Store(done)
       /\ UNCHANGED <<target_db_name, production_data, consumption_data, ei_wurst,
                      regio_tables, final_database_in_memory, databases, assembled_in,
                      write_log>>

(* elem_spatialization.py *)
SpatializeElemFlowsStage ==
    LET done == SpatializeElemFlows(Regio)
    IN /\ Staged("spatialize_elem_flows", done.raised)
       /\ Store(done)
       /\ UNCHANGED <<target_db_name, production_data, consumption_data, ei_wurst,
                      regio_tables, final_database_in_memory, databases, assembled_in,
                      write_log>>

(* io_ops.py 48-123: what a call of write_database leaves *)
Written(given) ==
    LET done == WriteDatabase(ei_wurst, records, final_database_in_memory, uuid_next,
                              target_db_name, given)
    IN /\ ei_wurst' = done.eiw
       /\ records' = done.objs
       /\ uuid_next' = done.uuid
       /\ target_db_name' = done.target
       /\ databases' = IF done.raised # "" THEN databases
                       ELSE [n \in DOMAIN databases \cup {done.target} |->
                               IF n = done.target THEN done.data ELSE databases[n]]
       /\ UNCHANGED <<cacheVars, production_data, consumption_data, regioinvent_in_wurst,
                      regio_tables, final_database_in_memory, assembled_in>>

(* io_ops.py 294-296 *)
WriteRegioinventToDatabase ==
    /\ Staged("write_regioinvent_to_database",
              IF final_database_in_memory = <<>> THEN "ValueError" ELSE "")
    /\ Written("")
    /\ write_log' = IF final_database_in_memory = <<>> THEN write_log
                    ELSE Append(write_log, assembled_in)

(* io_ops.py 126-291: what a call of connect_ecoinvent_to_regioinvent leaves *)
Connected(done, run) ==
    /\ ei_wurst' = done.eiw
    /\ final_database_in_memory' = done.final
    /\ assembled_in' = IF done.raised = "" THEN run ELSE assembled_in
    /\ UNCHANGED <<uuid_next, cacheVars, target_db_name, production_data, consumption_data,
                   records, regioinvent_in_wurst, regio_tables, databases, write_log>>

ConnectEcoinventToRegioinvent ==
    LET done == Connect(ei_wurst, records, regioinvent_in_wurst, final_database_in_memory,
                        target_db_name)
    IN /\ Staged("connect_ecoinvent_to_regioinvent", done.raised)
       /\ Connected(done, run_count)

(* a call outside a run *)
Called(function, raised) ==
    /\ mode = "pipeline" /\ run_pc = "idle" /\ run_count + direct_calls < MaxCalls
    /\ direct_calls' = direct_calls + 1
    /\ last_call' = function
    /\ run_raised' = raised
    /\ UNCHANGED <<quietVars, cutoff, run_pc, trade_conn, regioinvent_database_name,
                   run_count, stage_log, run_first, deleted>>

DirectConnect ==
    LET done == Connect(ei_wurst, records, regioinvent_in_wurst, final_database_in_memory,
                        target_db_name)
    IN /\ Called("connect_ecoinvent_to_regioinvent", done.raised)
       /\ Connected(done, 0)

DirectWrite ==
    \E given \in TargetArguments :
        /\ Called("write_database",
                  IF final_database_in_memory = <<>> THEN "ValueError" ELSE "")
        /\ Written(given)
        /\ UNCHANGED write_log

Next ==
    \/ RegionalizeEcoinventWithTrade
    \/ FormatTradeData
    \/ FirstOrderRegionalization
    \/ CreateConsumptionMarketsStage
    \/ SecondOrderRegionalization
    \/ SpatializeElemFlowsStage
    \/ WriteRegioinventToDatabase
    \/ ConnectEcoinventToRegioinvent
    \/ DirectConnect
    \/ DirectWrite

Spec == Init /\ [][Next]_vars

----------------------------------------------------------------------------
(* The entry of the pipeline alone: a first call of                        *)
(* regionalize_ecoinvent_with_trade with any arguments, and the first      *)
(* stage of the calls that are accepted.                                   *)

FirstCall ==
    \E trade \in AnyTrade, name \in AnyName, c \in AnyCutoff :
        run_count = 0 /\ Regionalize(trade, name, c)

NextCutoff == FirstCall \/ FormatTradeData

SpecCutoff == Init /\ [][NextCutoff]_vars

----------------------------------------------------------------------------
(* Properties of the pipeline *)

(* regionalize_ecoinvent_with_trade has just been entered: it raised or is *)
(* about to call its first stage                                           *)
JustCalled ==
    /\ mode = "pipeline" /\ run_count > 0 /\ stage_log = <<>>
    /\ last_call = "regionalize_ecoinvent_with_trade"

(* the last call was regionalize_ecoinvent_with_trade and it has returned *)
RunCompleted ==
    /\ mode = "pipeline" /\ run_count > 0 /\ run_pc = "idle" /\ run_raised = ""
    /\ last_call = "regionalize_ecoinvent_with_trade"

(* the partitions of elementary flows, which the pipeline reads only *)
BiosphereDatabases == {"biosphere3", name_spatialized_biosphere}

(* key is the key of a record of a partition *)
Resolves(key) ==
    \/ key[1] \in BiosphereDatabases
    \/ /\ key[1] \in DOMAIN databases
       /\ \E ds \in Range(databases[key[1]]) : ds["code"] = key[2]

(* C1: after regionalize_ecoinvent_with_trade completes, every exchange of *)
(* every record of the written set has an input key, and that key is the   *)
(* key of a record of the set or of another partition: no exchange keeps a *)
(* code from before the renumbering of write_database or the code of a     *)
(* clone that is in no partition.                                          *)
C1_NoDanglingInput ==
    RunCompleted =>
        /\ target_db_name \in DOMAIN databases
        /\ \A ds \in Range(databases[target_db_name]) :
             \A i \in DOMAIN ds["exchanges"] :
                /\ "input" \in DOMAIN ds["exchanges"][i]
                /\ Resolves(ds["exchanges"][i]["input"])

(* C2: in a run the writer is invoked at most once, only after             *)
(* connect_ecoinvent_to_regioinvent of the same run, and what it writes    *)
(* was assembled by that run, not by an earlier call and not missing.      *)
C2_WriteOnceAfterConnect ==
    LET writes == {i \in DOMAIN stage_log : stage_log[i] = "write_regioinvent_to_database"}
    IN /\ Cardinality(writes) <= 1
       /\ \A i \in writes :
             \E j \in 1..(i - 1) : stage_log[j] = "connect_ecoinvent_to_regioinvent"
       /\ \A k \in DOMAIN write_log : write_log[k] = run_count

(* C3: a call with a cutoff out of range raises before any stage and       *)
(* alters nothing: the databases, an existing one of the requested name    *)
(* included, and the fields of regio are as before the call.               *)
C3_RejectedCallAltersNothing ==
    [][(run_count' = run_count + 1 /\ (cutoff' < 0 \/ cutoff' > CutoffMax))
        => /\ run_raised' = "KeyError" /\ run_pc' = "idle" /\ stage_log' = <<>>
           /\ databases' = databases
           /\ trade_conn' = trade_conn
           /\ regioinvent_database_name' = regioinvent_database_name
           /\ cutoff' = cutoff]_vars

(* C4 as stated: a cutoff is accepted exactly when 0 <= cutoff < 0.99, so  *)
(* 0.99 itself is rejected.                                                *)
C4_AcceptedBelowMax ==
    JustCalled =>
        ((run_raised = "" /\ run_pc = Stages[1]) <=> (0 <= cutoff /\ cutoff < CutoffMax))

(* C4 amended: a cutoff is accepted exactly when 0 <= cutoff <= 0.99; a    *)
(* cutoff below 0 or above 0.99 is rejected with KeyError before any stage *)
(* and 0.99 itself is accepted.                                            *)
C4_AcceptedUpToMax ==
    JustCalled =>
        /\ (run_raised = "" /\ run_pc = Stages[1]) <=> (0 <= cutoff /\ cutoff <= CutoffMax)
        /\ (run_raised = "KeyError" /\ run_pc = "idle") <=> (cutoff < 0 \/ cutoff > CutoffMax)

(* C4 witness: a call with cutoff 0.99 has been accepted *)
C4_Witness ==
    JustCalled /\ cutoff = CutoffMax /\ run_raised = "" /\ run_pc = Stages[1]

(* C5: after a successful regionalize_ecoinvent_with_trade with            *)
(* regioinvent_database_name = N, partition N exists and holds every       *)
(* record the run created, its consumption markets among them, under its   *)
(* (name, reference product, location).                                    *)
C5_StoredUnderGivenName ==
    RunCompleted =>
        /\ regioinvent_database_name \in DOMAIN databases
        /\ \A id \in Range(regioinvent_in_wurst) :
             id > run_first =>
                \E ds \in Range(databases[regioinvent_database_name]) :
                    /\ ds["name"] = records[id]["name"]
                    /\ ds["reference product"] = records[id]["reference product"]
                    /\ ds["location"] = records[id]["location"]

(* C6: the stages of a run are trade formatting, first-order               *)
(* regionalization, consumption markets, second-order linking,             *)
(* spatialization of the elementary flows and the connection of ecoinvent, *)
(* in this order and once each; no stage follows a stage that raised.      *)
C6_SixStagesInOrder ==
    LET order == <<"format_trade_data", "first_order_regionalization",
                   "create_consumption_markets", "second_order_regionalization",
                   "spatialize_elem_flows", "connect_ecoinvent_to_regioinvent">>
    IN /\ Len(stage_log) <= Len(order)
       /\ \A i \in DOMAIN stage_log : stage_log[i] = order[i]
       /\ RunCompleted => stage_log = order
       /\ (mode = "pipeline" /\ run_raised # "") => run_pc = "idle"

----------------------------------------------------------------------------
(* A first run on a fresh object, for every trade database, database name  *)
(* and cutoff of a set, from the call to its write stage                   *)
(* (pipeline.py 21-77).                                                    *)

RunNames == {"Regioinvent", DefaultTargetDbName}
RunCutoffs == {c \in AnyCutoff : ~CutoffOutOfRange(c)}

FirstRun ==
    \E trade \in AnyTrade, name \in RunNames, c \in RunCutoffs :
        run_count = 0 /\ Regionalize(trade, name, c)

NextStages ==
    \/ FirstRun
    \/ FormatTradeData
    \/ FirstOrderRegionalization
    \/ CreateConsumptionMarketsStage
    \/ SecondOrderRegionalization
    \/ SpatializeElemFlowsStage
    \/ WriteRegioinventToDatabase

SpecStages == Init /\ [][NextStages]_vars

----------------------------------------------------------------------------
(* Properties of the stages *)

(* the stage named has just returned *)
StageReturned(stage) ==
    /\ mode = "pipeline" /\ run_raised = "" /\ stage_log # <<>>
    /\ stage_log[Len(stage_log)] = stage

(* the consumption markets of the collection, as identities in records *)
ConsumptionMarketIds ==
    {id \in Range(regioinvent_in_wurst) :
        Contains(records[id]["name"], "consumption market for ")}

(* the exchanges of a consumption market to the producers of its commodity: *)
(* its technosphere exchanges into the database of the run (the transport  *)
(* exchanges go to ecoinvent)                                              *)
ProducerExchanges(ds) ==
    SelectSeq(ds["exchanges"],
              LAMBDA e : e["type"] = "technosphere"
                         /\ e["input"][1] = regioinvent_database_name)

(* C11: when create_consumption_markets has returned, in every consumption *)
(* market the amounts of the technosphere exchanges to the producers of    *)
(* the commodity, duplicates merged and transport left out, sum to 1.      *)
C11_ProducerAmountsSumToOne ==
    StageReturned("create_consumption_markets") =>
        \A id \in ConsumptionMarketIds :
            AmountSum(ProducerExchanges(records[id])) = ROne

(* C11 witness: markets have been built with a cutoff that folds importers *)
(* into RoW, one of them for RoW, and one has several producer exchanges   *)
(* of amounts below 1                                                      *)
C11_Witness ==
    /\ StageReturned("create_consumption_markets") /\ cutoff = 700
    /\ \E id \in ConsumptionMarketIds : records[id]["location"] = "RoW"
    /\ \E id \in ConsumptionMarketIds :
          /\ Len(ProducerExchanges(records[id])) >= 2
          /\ \A i \in DOMAIN ProducerExchanges(records[id]) :
                RLess(ProducerExchanges(records[id])[i]["amount"], ROne)

(* no two exchanges of the process have the same input key *)
InputsDistinct(ds) ==
    \A i, j \in DOMAIN ds["exchanges"] :
        (/\ i < j
         /\ "input" \in DOMAIN ds["exchanges"][i]
         /\ "input" \in DOMAIN ds["exchanges"][j])
        => ds["exchanges"][i]["input"] # ds["exchanges"][j]["input"]

(* the exchange is one the aggregation of second_order_regionalization     *)
(* put in place of duplicates (second_order.py 336-346)                    *)
IsAggregate(e) ==
    DOMAIN e = {"amount", "type", "input", "name", "database", "product", "location"}

(* C12: when second_order_regionalization has returned, no process of the  *)
(* collection has two exchanges with the same input key, and every         *)
(* exchange has one; when create_consumption_markets has returned, no      *)
(* consumption market has two exchanges with the same input key.           *)
C12_NoDuplicateInput ==
    /\ StageReturned("second_order_regionalization") =>
          \A id \in Range(regioinvent_in_wurst) :
              /\ InputsDistinct(records[id])
              /\ \A e \in Range(records[id]["exchanges"]) : "input" \in DOMAIN e
    /\ StageReturned("create_consumption_markets") =>
          \A id \in ConsumptionMarketIds : InputsDistinct(records[id])

(* C12 witness: second_order_regionalization has returned and a process    *)
(* holds an exchange that stands for several exchanges of one input        *)
C12_Witness ==
    /\ StageReturned("second_order_regionalization")
    /\ \E id \in Range(regioinvent_in_wurst) :
          \E e \in Range(records[id]["exchanges"]) : IsAggregate(e)

----------------------------------------------------------------------------
(* Claims on change_heat *)

(* change_heat has just returned; the heat flow it was called with *)
HeatReturned ==
    /\ mode = "subst" /\ sub_last = "change_heat"
    /\ sub_pc \in {"heat_non_ng", "heat_small_non_ng", "register"}

HeatFlowDone ==
    CASE sub_pc = "heat_non_ng" -> HeatNg
      [] sub_pc = "heat_small_non_ng" -> HeatNonNg
      [] OTHER -> HeatSmallNonNg

(* the country is none of CA, US, CN, BR, IN, is not CH and is in no       *)
(* European region                                                         *)
OutsideHeatRegions(country) ==
    /\ country \notin {"CA", "US", "CN", "BR", "IN", "CH"}
    /\ ~FirstRegionIsRER(country)

(* the mix was read from the market of RoW for the location RoW, and every *)
(* replacement exchange is located in RoW                                  *)
HeatFromRoW ==
    /\ <<HeatFlowDone, "RoW", "RoW">> \in DOMAIN heat_mix_cache
    /\ \A i \in DOMAIN sub_appended : sub_appended[i]["location"] = "RoW"

(* C13 as stated: for a country that is none of CA, US, CN, BR, IN, is not *)
(* CH and is in no European region, change_heat reads the mix from the     *)
(* heat market of RoW and gives every replacement exchange the location    *)
(* RoW, for each heat category.                                            *)
C13_HeatFromRoW ==
    (HeatReturned /\ OutsideHeatRegions(geo)) => HeatFromRoW

(* C13 amended: the same for a country that, besides, has no national heat *)
(* production process of the category; a country that has one keeps its    *)
(* own location and reads its share of the market of RoW.                  *)
C13_HeatFromRoWWithoutNationalProcess ==
    (HeatReturned /\ OutsideHeatRegions(geo)) =>
        /\ geo \notin HeatProcessCountries(HeatFlowDone) => HeatFromRoW
        /\ geo \in HeatProcessCountries(HeatFlowDone) =>
              /\ <<HeatFlowDone, "RoW", geo>> \in DOMAIN heat_mix_cache
              /\ \A i \in DOMAIN sub_appended : sub_appended[i]["location"] = geo

(* C13 witness: the heat of a clone for Japan, which has no national       *)
(* process of the category, has been replaced by heat from RoW             *)
C13_Witness ==
    /\ HeatReturned /\ geo = "JP" /\ HeatFlowDone = HeatNonNg
    /\ sub_removed # <<>> /\ sub_appended # <<>> /\ HeatFromRoW

----------------------------------------------------------------------------
(* Claims on change_electricity *)

ElectricityReturned ==
    mode = "subst" /\ sub_last = "change_electricity" /\ sub_pc = "waste"

(* the product without the suffixes of the special Swiss grid mixes *)
StripVariants(product) ==
    SplitFirst(SplitFirst(product, ", for Swiss Federal Railways"),
               ", renewable energy products")

MatchedProducts == {sub_removed[i]["product"] : i \in DOMAIN sub_removed}

(* the matched products that are replaced under their own name and by one  *)
(* replacement only (no special grid mix is folded into them)              *)
PlainMatchedProducts ==
    {p \in MatchedProducts :
        \A q \in MatchedProducts : StripVariants(q) = p <=> q = p}

MatchedOriginals(product) ==
    SelectSeq(sub_removed, LAMBDA e : e["product"] = product)

InputsOfProduct(product) ==
    SelectSeq(regio_process["exchanges"],
              LAMBDA e : e["type"] = "technosphere" /\ Get(e, "product", "") = product)

(* the exchanges of the process that the call did not append *)
KeptExchanges ==
    SubSeq(regio_process["exchanges"], 1,
           Len(regio_process["exchanges"]) - Len(sub_appended))

(* C14: after change_electricity on a process for a country that has its   *)
(* own electricity market, for each matched electricity product exactly    *)
(* one exchange for that product exists on the process, it is the market   *)
(* (or market group) of the country, its amount is the sum of the amounts  *)
(* of the matched original exchanges, and no matched original exchange     *)
(* remains.                                                                *)
C14_OneExchangePerElectricityProduct ==
    (ElectricityReturned /\ geo \in electricity_geos) =>
        /\ \A p \in PlainMatchedProducts :
              LET now == InputsOfProduct(p)
              IN /\ Len(now) = 1
                 /\ now[1]["location"] = geo
                 /\ IsMarketOrGroup(now[1]["name"])
                 /\ now[1]["amount"] = AmountSum(MatchedOriginals(p))
        /\ \A i \in DOMAIN sub_removed : ~IsOneOf(sub_removed[i], KeptExchanges)

----------------------------------------------------------------------------
(* Claims on connect_ecoinvent_to_regioinvent *)

(* the step is a call of connect_ecoinvent_to_regioinvent, as the seventh  *)
(* stage of a run or outside a run                                         *)
ConnectStep ==
    \/ /\ Len(stage_log') = Len(stage_log) + 1
       /\ stage_log'[Len(stage_log')] = "connect_ecoinvent_to_regioinvent"
    \/ /\ direct_calls' = direct_calls + 1
       /\ last_call' = "connect_ecoinvent_to_regioinvent"

IsSwiss(process) ==
    process["location"] = "CH" \/ SplitFirst(process["location"], "-") = "CH"

(* what each exchange of the process links to, and for how much *)
ExchangeLinks(process) ==
    [i \in DOMAIN process["exchanges"] |->
        LET exc == process["exchanges"][i]
        IN <<Get(exc, "type", None), Get(exc, "name", None), Get(exc, "product", None),
             Get(exc, "location", None), Get(exc, "database", None), Get(exc, "code", None),
             Get(exc, "amount", None)>>]

(* C15: connect_ecoinvent_to_regioinvent leaves every Swiss process of the *)
(* original database untouched: after the call each of them has the same   *)
(* exchanges, in the same order, to the same suppliers and of the same     *)
(* amounts, as before (none redirected, merged, added or removed).         *)
C15_SwissProcessesUntouched ==
    [][ConnectStep =>
          \A i \in DOMAIN ei_wurst :
              IsSwiss(ei_wurst[i]) => ExchangeLinks(ei_wurst'[i]) = ExchangeLinks(ei_wurst[i])]_vars

(* the step is the stage of a run *)
StageStep(stage) ==
    /\ Len(stage_log') = Len(stage_log) + 1
    /\ stage_log'[Len(stage_log')] = stage

(* the stages a run goes through between the start of                      *)
(* first_order_regionalization and the start of                            *)
(* connect_ecoinvent_to_regioinvent (pipeline.py 70-81)                    *)
StagesBeforeConnect ==
    {"first_order_regionalization", "create_consumption_markets",
     "second_order_regionalization", "spatialize_elem_flows",
     "write_regioinvent_to_database"}

(* C16: from the start of first_order_regionalization until                *)
(* connect_ecoinvent_to_regioinvent begins, no process record and no       *)
(* exchange of the original database collection (ei_wurst) changes.        *)
C16_OriginalUnchangedBeforeConnect ==
    [][(\E stage \in StagesBeforeConnect : StageStep(stage)) => ei_wurst' = ei_wurst]_vars

----------------------------------------------------------------------------
(* Claims on the links of second_order_regionalization *)

(* second_order_regionalization is about to run on the created processes *)
BeforeSecondOrder == mode = "pipeline" /\ run_pc = "second_order_regionalization"

(* the created processes whose exchanges the two loops redirect *)
LinkedIds ==
    {id \in Range(regioinvent_in_wurst) :
        ~IsMarketProcess(records[id]) /\ ~IsTechnologyMix(records[id])}

LinkedExchanges(id) ==
    {exc \in Range(records[id]["exchanges"]) :
        {"product", "type"} \subseteq DOMAIN exc /\ exc["type"] = "technosphere"}

(* the redirection of one exchange of a created process, as the loop of    *)
(* its process makes it                                                    *)
Redirection(id, exc) ==
    LET process == records[id]
        markets == consumption_markets_data(records, regioinvent_in_wurst)
        mixes == techno_mixes(records, regioinvent_in_wurst)
    IN IF Traded(exc["product"])
       THEN ToConsumptionMarket(exc, process["location"], markets)
       ELSE IF Traded(process["reference product"])
       THEN ToTechnologyMix(exc, process["location"], mixes, target_db_name)
       ELSE TryTechnologyMix(exc, process["location"], mixes, target_db_name)

RoWTargetExists(exc) ==
    IF Traded(exc["product"])
    THEN <<"consumption market for " \o exc["product"], "RoW">>
            \in DOMAIN consumption_markets_data(records, regioinvent_in_wurst)
    ELSE <<"technology mix for " \o exc["product"], "RoW">>
            \in DOMAIN techno_mixes(records, regioinvent_in_wurst)

IsRedirected(exc) ==
    Traded(exc["product"])
    \/ exc["product"] \in regionalized_products(records, regioinvent_in_wurst)

(* C17: in second_order_regionalization the redirection of an exchange to  *)
(* a consumption market or to a technology mix raises only when the target *)
(* exists neither at the location of the process nor at RoW: whenever the  *)
(* RoW target exists the redirection completes without error.              *)
C17_RaisesOnlyWithoutRoW ==
    BeforeSecondOrder =>
        \A id \in LinkedIds : \A exc \in LinkedExchanges(id) :
            (IsRedirected(exc) /\ RoWTargetExists(exc)) => Redirection(id, exc).raised = ""

----------------------------------------------------------------------------
(* Claims on the cutoff *)

NonRoW(countries) == countries \ {"RoW"}

(* the countries retained with cutoff c for the table and the sorted order *)
(* of the finished computation                                             *)
RetainedWith(c) == {sorted_order[i] : i \in 1..Limit(RankedQty, sorted_order, c)}

(* the countries the finished computation retained, as its result has them *)
RetainedProducers == Range(producers.index)
RetainedConsumers == {sorted_order[i] : i \in 1..sh_limit}

(* C18: for a fixed trade dataset, raising the cutoff never lowers the     *)
(* number of retained countries other than RoW: for all cutoffs c1 <= c2   *)
(* in range the producers, and the consumers, retained with c1 are at most *)
(* as many as those retained with c2.                                      *)
C18_CutoffMonotone ==
    /\ ProdDone =>
          \A c \in ShareCutoffs \ {cutoff} :
              LET here == Cardinality(NonRoW(RetainedProducers))
                  there == Cardinality(NonRoW(Range(Producers(cmd_prod_data,
                                                              sorted_order, c).index)))
              IN IF cutoff <= c THEN here <= there ELSE there <= here
    /\ (mode = "shares" /\ sh_pc \in {"done", "raised"} /\ cmd_consumption_data # NoTable) =>
          \A c \in ShareCutoffs \ {cutoff} :
              LET here == Cardinality(NonRoW(RetainedConsumers))
                  there == Cardinality(NonRoW(RetainedWith(c)))
              IN IF cutoff <= c THEN here <= there ELSE there <= here

(* C18 witness: with the quantities 5, 3 and 2 the cutoff 0.5 retains one  *)
(* producer and the cutoffs 0.7 and 0.8 retain two and three               *)
C18_Witness ==
    /\ ProdDone /\ cutoff = 500
    /\ Cardinality(NonRoW(RetainedProducers)) = 1
    /\ Cardinality(NonRoW(RetainedWith(700))) = 2
    /\ Cardinality(NonRoW(RetainedWith(800))) = 3

----------------------------------------------------------------------------
(* Claims on the keys of the processes *)

KeyOf(ds) == <<ds["database"], ds["code"]>>

KeysDistinct(datasets) ==
    \A i, j \in DOMAIN datasets : i # j => KeyOf(datasets[i]) # KeyOf(datasets[j])

(* the processes of regioinvent_in_wurst of each kind *)
CreatedOfKind(kind) ==
    {id \in Range(regioinvent_in_wurst) : Contains(records[id]["name"], kind)}

(* C19: no two processes created by the pipeline (production clones,       *)
(* production markets, technology mixes, consumption markets) have the     *)
(* same (database, code), and no two records of a database written by      *)
(* write_database have the same key.                                       *)
C19_KeysUnique ==
    mode = "pipeline" =>
        /\ KeysDistinct(records)
        /\ \A name \in DOMAIN databases : KeysDistinct(databases[name])

(* C19 witness: a run has created processes of the four kinds and          *)
(* write_database has written them, with the processes of ecoinvent        *)
C19_Witness ==
    /\ mode = "pipeline" /\ write_log # <<>>
    /\ CreatedOfKind("production market") # {}
    /\ CreatedOfKind("technology mix") # {}
    /\ CreatedOfKind("consumption market") # {}
    /\ \E id \in Range(regioinvent_in_wurst) :
          /\ ~IsMarketProcess(records[id]) /\ ~IsTechnologyMix(records[id])
          /\ \E i \in DOMAIN databases[target_db_name] :
                KeyOf(databases[target_db_name][i]) = KeyOf(records[id])
    /\ Len(databases[target_db_name]) > Len(ei_wurst)

----------------------------------------------------------------------------
(* Claims on the resolution of geographies *)

(* an exchange that a substitution appended (they alone carry an output) *)
IsReplacement(exc) == exc["type"] = "technosphere" /\ "output" \in DOMAIN exc

ClonesAt(country) ==
    {id \in Range(regioinvent_in_wurst) :
        /\ ~IsMarketProcess(records[id]) /\ ~IsTechnologyMix(records[id])
        /\ records[id]["location"] = country}

(* the geographies of a technology in ecoinvent, in the order of ei_wurst *)
GeographiesOf(technology) ==
    LET same == SelectSeq(ei_wurst, LAMBDA ds : ds["name"] = technology)
    IN [i \in DOMAIN same |-> same[i]["location"]]

(* the template a clone of the steel converter was copied from: until the  *)
(* elementary flows are spatialized its emission of ammonia names the      *)
(* location of the template (the clones of the run are those after         *)
(* run_first)                                                              *)
AmmoniaOf(id) ==
    {exc \in Range(records[id]["exchanges"]) :
        exc["type"] = "biosphere" /\ Contains(exc["name"], "Ammonia, ")}

CachesAgree ==
    /\ \A k \in DOMAIN electricity_region_cache :
          electricity_region_cache[k] = ElectricityRegion(k)
    /\ \A k \in DOMAIN aluminium_electricity_region_cache :
          aluminium_electricity_region_cache[k] = AluminiumElectricityRegion(k)
    /\ \A k \in DOMAIN waste_region_cache : waste_region_cache[k] = WasteRegion(k)

(* C20: the resolved geography depends on the country and the static       *)
(* tables only: whatever was resolved before and whether or not the        *)
(* caches were populated, every clone takes its electricity, its           *)
(* electricity of the aluminium industry and its waste treatment from the  *)
(* geography that a resolution from scratch gives for its country, every   *)
(* cached geography is that one, and every clone of a technology is copied *)
(* from the template that the resolution gives for its country.            *)
C20_ResolutionIsPure ==
    mode = "pipeline" =>
        /\ CachesAgree
        /\ StageReturned("first_order_regionalization") =>
              \A id \in Range(regioinvent_in_wurst) :
                  /\ \A exc \in Range(records[id]["exchanges"]) :
                        /\ (IsReplacement(exc) /\ IsGridElectricity(exc)) =>
                              exc["location"] = ElectricityRegion(records[id]["location"])
                        /\ (IsReplacement(exc) /\ IsAluminiumElectricity(exc)) =>
                              exc["location"]
                                 = AluminiumElectricityRegion(records[id]["location"])
                        /\ (IsReplacement(exc) /\ exc["product"] = Waste) =>
                              exc["location"] = WasteRegion(records[id]["location"])
                  /\ (records[id]["name"] = Converter /\ id > run_first) =>
                        LET regions == TemplateRegions(GeographiesOf(Converter),
                                                       records[id]["location"])
                        IN \A exc \in AmmoniaOf(id) :
                              exc["name"] = "Ammonia, " \o regions[Len(regions)]

(* C20 witness: the first-order regionalization of a second run on the    *)
(* same object has returned: it found the geographies of the three         *)
(* substitutions in the caches the first run left, and the two clones in   *)
(* Germany have the replacements of Germany                                *)
C20_Witness ==
    /\ StageReturned("first_order_regionalization") /\ run_count = 2
    /\ "DE" \in DOMAIN electricity_region_cache
    /\ "DE" \in DOMAIN aluminium_electricity_region_cache
    /\ "DE" \in DOMAIN waste_region_cache
    /\ \E a, b \in ClonesAt("DE") :
          /\ \E exc \in Range(records[a]["exchanges"]) :
                /\ IsReplacement(exc) /\ IsGridElectricity(exc) /\ exc["location"] = "DE"
          /\ \E exc \in Range(records[b]["exchanges"]) :
                /\ IsReplacement(exc) /\ IsAluminiumElectricity(exc)
                /\ exc["location"] = AluminiumElectricityRegion("DE")
          /\ \A id \in {a, b} :
                \E exc \in Range(records[id]["exchanges"]) :
                    /\ IsReplacement(exc) /\ exc["product"] = Waste
                    /\ exc["location"] = "Europe without Switzerland"
          /\ a > run_first /\ b > run_first /\ AmmoniaOf(a) # {}

----------------------------------------------------------------------------
(* Claims on the templates and the production markets *)

(* the geography the priority order names for a technology and a country,  *)
(* with the first valid region of the table                                *)
FirstValidTemplate(possible, country) ==
    LET regions ==
          IF country \in DOMAIN country_to_ecoinvent_regions
          THEN SelectSeq(country_to_ecoinvent_regions[country],
                         LAMBDA r : r \in Range(possible))
          ELSE <<>>
    IN IF country \in Range(possible) /\ country # "RoW" THEN country
       ELSE IF regions # <<>> THEN regions[1]
       ELSE IF "RoW" \in Range(possible) THEN "RoW"
       ELSE IF "GLO" \in Range(possible) THEN "GLO"
       ELSE possible[1]

(* the clones of the steel converter that the run created *)
ConverterClones ==
    {id \in Range(regioinvent_in_wurst) :
        /\ id > run_first /\ records[id]["name"] = Converter
        /\ ~IsMarketProcess(records[id]) /\ ~IsTechnologyMix(records[id])}

(* C21: the template of a clone is the process of the country itself, else *)
(* of the first region of the country, in the order of the table, that is  *)
(* a geography of the technology, else of RoW, else of GLO, else of the    *)
(* first geography of the technology.                                      *)
C21_TemplateIsFirstValidRegion ==
    StageReturned("first_order_regionalization") =>
        \A id \in ConverterClones : \A exc \in AmmoniaOf(id) :
            exc["name"] = "Ammonia, " \o FirstValidTemplate(GeographiesOf(Converter),
                                                           records[id]["location"])

(* the clone of Germany, whose regions RER and Europe without Switzerland  *)
(* are both geographies of the converter, exists after the stage           *)
C21_TwoValidRegions ==
    /\ StageReturned("first_order_regionalization")
    /\ \E id \in ConverterClones :
          /\ records[id]["location"] = "DE" /\ AmmoniaOf(id) # {}
          /\ Len(TemplateRegions(GeographiesOf(Converter), "DE")) = 2

(* the production markets the run created *)
ProductionMarketIds ==
    {id \in Range(regioinvent_in_wurst) :
        id > run_first /\ Contains(records[id]["name"], "production market for ")}

(* the positions of the exchanges of a production market to its producers  *)
(* (the transport exchanges carry no name)                                 *)
ProducerEdges(m) ==
    {j \in DOMAIN records[m]["exchanges"] :
        /\ records[m]["exchanges"][j]["type"] = "technosphere"
        /\ "name" \in DOMAIN records[m]["exchanges"][j]}

EdgesTo(m, technology, producer) ==
    {j \in ProducerEdges(m) :
        /\ records[m]["exchanges"][j]["name"] = technology
        /\ records[m]["exchanges"][j]["location"] = producer}

ClonesOf(product, technology, producer) ==
    {id \in Range(regioinvent_in_wurst) :
        /\ id > run_first /\ records[id]["name"] = technology
        /\ records[id]["reference product"] = product
        /\ records[id]["location"] = producer}

(* the producers Series of the run for a product *)
RunProducers(product) ==
    Producers(production_data[product], sort_values(production_data[product]), cutoff)

(* C22: for each technology and each retained producer of a traded         *)
(* commodity exactly one clone is in the collection and exactly one edge   *)
(* of the production market points to it, with the production share times  *)
(* the technology share as amount; the edges to the producers of a         *)
(* production market sum to one.                                           *)
C22_OneCloneOneEdge ==
    StageReturned("first_order_regionalization") =>
        \A m \in ProductionMarketIds :
            LET product == records[m]["reference product"]
                retained == RunProducers(product)
                distribution == regio_tables.distribution_technologies[product]
                excs == records[m]["exchanges"]
            IN /\ \A i \in DOMAIN distribution : \A p \in Range(retained.index) :
                     /\ Cardinality(ClonesOf(product, distribution[i].k, p)) = 1
                     /\ Cardinality(EdgesTo(m, distribution[i].k, p)) = 1
                     /\ \A j \in EdgesTo(m, distribution[i].k, p) :
                           /\ \E id \in ClonesOf(product, distribution[i].k, p) :
                                 excs[j]["input"] = KeyOf(records[id])
                           /\ excs[j]["amount"]
                                 = RMul(retained.share[p], distribution[i].v)
               /\ RSumSeq([k \in 1..Len(SeqOfSet(ProducerEdges(m))) |->
                              excs[SeqOfSet(ProducerEdges(m))[k]]["amount"]]) = ROne

(* the production market of steel of a run with Germany among the          *)
(* producers exists after the stage                                        *)
C22_MarketOfTwoRegions ==
    /\ StageReturned("first_order_regionalization")
    /\ \E m \in ProductionMarketIds :
          /\ "DE" \in Range(RunProducers(records[m]["reference product"]).index)
          /\ EdgesTo(m, Converter, "DE") # {}

(* the market processes the run created *)
CreatedMarketIds ==
    {id \in Range(regioinvent_in_wurst) : id > run_first /\ IsMarketProcess(records[id])}

(* the transport exchanges of a created market: its exchanges into the     *)
(* database of ecoinvent                                                   *)
TransportOf(id) ==
    {exc \in Range(records[id]["exchanges"]) :
        /\ exc["type"] = "technosphere"
        /\ exc["input"][1] = name_ei_with_regionalized_biosphere}

(* the sum of the amounts of a transport input in the source markets of a  *)
(* product, divided by the number of these markets                         *)
TransportAverage(product, code) ==
    LET markets == market_by_product(ei_wurst, product)
        excs == Concat([i \in DOMAIN markets |-> markets[i]["exchanges"]])
        hits == SelectSeq(excs, LAMBDA e : /\ e["code"] = code /\ e["unit"] = Tkm
                                           /\ Contains(e["name"], "transport")
                                           /\ IsMarketOrGroup(e["name"]))
    IN RDiv(AmountSum(hits), RInt(Len(markets)))

(* C23: when a commodity has more than one source market, the amount of    *)
(* each transport exchange of its production market and of its consumption *)
(* markets is the sum of the amounts of that transport input in the source *)
(* markets divided by the number of source markets.                        *)
C23_TransportIsAverage ==
    (StageReturned("first_order_regionalization")
        \/ StageReturned("create_consumption_markets")) =>
        \A id \in CreatedMarketIds :
            Len(market_by_product(ei_wurst, records[id]["reference product"])) > 1 =>
                \A exc \in TransportOf(id) :
                    exc["amount"]
                        = TransportAverage(records[id]["reference product"], exc["input"][2])

(* a production market with a transport exchange, of a commodity with two  *)
(* source markets that both use the transport                              *)
C23_TwoSourceMarkets ==
    /\ StageReturned("first_order_regionalization")
    /\ \E id \in CreatedMarketIds :
          /\ TransportOf(id) # {}
          /\ Len(market_by_product(ei_wurst, records[id]["reference product"])) = 2

----------------------------------------------------------------------------
(* Claims on the spatialization of the elementary flows *)

(* a biosphere exchange of a flow that is spatialized for its compartment *)
IsSpatializedFlow(exc) ==
    /\ exc["type"] = "biosphere"
    /\ DropLastPart(exc["name"]) \in DOMAIN spatialized_elem_flows
    /\ exc["categories"][1] \in spatialized_elem_flows[DropLastPart(exc["name"])]

(* the (name, categories) of the flow at the location of the process *)
VariantAt(exc, location) == <<DropLastPart(exc["name"]) \o ", " \o location, exc["categories"]>>

(* C24: spatialize_elem_flows rewrites a biosphere exchange to the flow of *)
(* the location of its process only when the registry of spatialized flows *)
(* has that (name, categories); when it has not, the exchange is left as   *)
(* it is and the stage goes on without an error.                           *)
C24_MissingVariantLeftUnchanged ==
    [][StageStep("spatialize_elem_flows") =>
          /\ run_raised' = ""
          /\ \A id \in Range(regioinvent_in_wurst) :
                \A j \in DOMAIN records[id]["exchanges"] :
                    LET exc == records[id]["exchanges"][j]
                        after == records'[id]["exchanges"][j]
                        key == VariantAt(exc, records[id]["location"])
                    IN IF IsSpatializedFlow(exc) /\ key \in DOMAIN regionalized_flows
                       THEN /\ after["name"] = key[1]
                            /\ after["input"]
                                 = <<name_spatialized_biosphere, regionalized_flows[key]>>
                       ELSE after = exc]_vars

----------------------------------------------------------------------------
(* Claims on the validation of change_heat *)

(* C25: change_heat checks that the contributions it found for the target  *)
(* geography in the regional heat market do not sum to zero before it      *)
(* scales them: it never returns normally having removed the heat          *)
(* exchanges of the process and appended nothing.                          *)
C25_HeatNeverDropped ==
    HeatReturned => ~(sub_removed # <<>> /\ sub_appended = <<>>)

----------------------------------------------------------------------------
(* Claims on second_order_regionalization *)

(* the keys of the consumption markets of a product at a location *)
MarketKeysAt(product, location) ==
    {KeyOf(records[id]) : id \in {m \in ConsumptionMarketIds :
        /\ records[m]["name"] = "consumption market for " \o product
        /\ records[m]["location"] = location}}

(* the production clones of the traded commodities *)
TradedClones ==
    {id \in LinkedIds : Traded(records[id]["reference product"])}

(* the exchanges of traded commodities of a clone *)
TradedInputs(id) ==
    {exc \in LinkedExchanges(id) : Traded(exc["product"])}

(* C26: after the first pass of second_order_regionalization every         *)
(* technosphere exchange of a traded commodity in a production clone of a  *)
(* traded commodity has as input the key of the consumption market of the  *)
(* product at the location of the clone when that market exists, and of    *)
(* the consumption market of the product at RoW otherwise.                 *)
C26_TradedInputsFromConsumptionMarkets ==
    StageReturned("second_order_regionalization") =>
        \A id \in TradedClones : \A exc \in TradedInputs(id) :
            IF MarketKeysAt(exc["product"], records[id]["location"]) # {}
            THEN exc["input"] \in MarketKeysAt(exc["product"], records[id]["location"])
            ELSE exc["input"] \in MarketKeysAt(exc["product"], "RoW")

(* one clone takes its steel from the consumption market of its country,   *)
(* another one, whose country has none, from the one of RoW                *)
C26_LocalAndRoW ==
    /\ StageReturned("second_order_regionalization")
    /\ \E a, b \in TradedClones :
          /\ records[a]["location"] # "RoW" /\ records[b]["location"] # "RoW"
          /\ TradedInputs(a) # {} /\ TradedInputs(b) # {}
          /\ MarketKeysAt(Steel, records[a]["location"]) # {}
          /\ MarketKeysAt(Steel, records[b]["location"]) = {}
          /\ \A exc \in TradedInputs(b) : exc["input"] \in MarketKeysAt(Steel, "RoW")

(* the technology mixes and the production processes of non-traded         *)
(* products among the created processes                                    *)
TechnologyMixIds == {id \in Range(regioinvent_in_wurst) : IsTechnologyMix(records[id])}

NonTradedClones == {id \in LinkedIds : ~Traded(records[id]["reference product"])}

(* second_order_regionalization returns in this step *)
SecondOrderReturns == StageStep("second_order_regionalization") /\ run_raised' = ""

----------------------------------------------------------------------------
(* Claims on the duplicates connect_ecoinvent_to_regioinvent leaves *)

(* no two technosphere exchanges of the process have the same input key *)
TechnosphereInputsDistinct(ds) ==
    \A i, j \in DOMAIN ds["exchanges"] :
        (/\ i < j
         /\ Get(ds["exchanges"][i], "type", None) = "technosphere"
         /\ Get(ds["exchanges"][j], "type", None) = "technosphere")
        => Get(ds["exchanges"][i], "input", None) # Get(ds["exchanges"][j], "input", None)

(* an exchange the third step of the connection sent to a production       *)
(* process of the regionalized database                                    *)
ToRegionalizedProduction(exc) ==
    /\ Get(exc, "type", None) = "technosphere"
    /\ exc["database"] = target_db_name
    /\ ~Contains(exc["name"], "consumption market")
    /\ ~Contains(exc["name"], "technology mix")

(* C28: after connect_ecoinvent_to_regioinvent has done its three steps    *)
(* (redirection to the consumption markets and technology mixes,           *)
(* aggregation of the duplicates, redirection to the regionalized          *)
(* production processes) no process of the original database has two       *)
(* technosphere exchanges with the same input key.                         *)
C28_NoDuplicateAfterConnect ==
    [][(ConnectStep /\ run_raised' = "") =>
          \A i \in DOMAIN ei_wurst' : TechnosphereInputsDistinct(ei_wurst'[i])]_vars

(* the connection has returned: a process of the original database had two *)
(* exchanges of one input, now merged into one, and another exchange of it *)
(* was sent to a regionalized production process                           *)
C28_Witness ==
    /\ StageReturned("connect_ecoinvent_to_regioinvent")
    /\ \E i \in DOMAIN ei_wurst :
          /\ \E e \in Range(ei_wurst[i]["exchanges"]) :
                DOMAIN e = {"amount", "type", "input", "name", "product", "location",
                            "database", "code"}
          /\ \E e \in Range(ei_wurst[i]["exchanges"]) : ToRegionalizedProduction(e)

----------------------------------------------------------------------------
(* Claims on the consumption market of RoW *)

(* C29: for every traded commodity, whatever the trade data and the        *)
(* accepted cutoff (also when the retained importers are all the           *)
(* importers), create_consumption_markets creates a consumption market     *)
(* located in RoW, so that the lookups of (product, RoW) of                *)
(* second_order_regionalization and connect_ecoinvent_to_regioinvent find  *)
(* a target.                                                               *)
C29_RoWConsumptionMarketCreated ==
    [][StageStep("create_consumption_markets") =>
          /\ run_raised' = ""
          /\ \A product \in DOMAIN eco_to_hs_class :
                \E id \in Range(regioinvent_in_wurst') :
                    /\ records'[id]["name"] = "consumption market for " \o product
                    /\ records'[id]["location"] = "RoW"]_vars

----------------------------------------------------------------------------
(* Claims on the aggregation of duplicates of second_order_regionalization *)

(* the production and biosphere exchanges of a process, in order *)
NonTechnosphere(ds) ==
    SelectSeq(ds["exchanges"], LAMBDA e : e["type"] \in {"production", "biosphere"})

(* an exchange without its input key (the pass completes a missing one from *)
(* database and code, second_order.py 294-298)                             *)
WithoutInput(exc) == [k \in DOMAIN exc \ {"input"} |-> exc[k]]

TechnosphereTotal(ds) ==
    AmountSum(SelectSeq(ds["exchanges"], LAMBDA e : e["type"] = "technosphere"))

(* C30: the aggregation of duplicates of second_order_regionalization      *)
(* changes technosphere exchanges only: no production or biosphere         *)
(* exchange is merged, removed or retyped, and the technosphere amounts of *)
(* each input of each process sum to the same before and after.  (The      *)
(* passes before it keep every amount and touch technosphere exchanges     *)
(* only, so over the whole stage the production and biosphere exchanges of *)
(* each process, but for an input key completed from database and code,   *)
(* and the sum of its technosphere amounts, stay the same.)                *)
C30_AggregationOnlyTechnosphere ==
    [][SecondOrderReturns =>
          \A id \in Range(regioinvent_in_wurst') :
              /\ Len(NonTechnosphere(records'[id])) = Len(NonTechnosphere(records[id]))
              /\ \A j \in DOMAIN NonTechnosphere(records[id]) :
                    WithoutInput(NonTechnosphere(records'[id])[j])
                        = WithoutInput(NonTechnosphere(records[id])[j])
              /\ TechnosphereTotal(records'[id]) = TechnosphereTotal(records[id])]_vars

====
